---- MODULE Spec2Model ----
(***************************************************************************)
(* Model of the analytics core of workout-tracker (analytics-python):      *)
(* the 1RM estimator, the anomaly detector with its health score, the      *)
(* strength predictor's call protocol and the recommender's deload rule.   *)
(*                                                                         *)
(* Numbers.  The Python code computes in IEEE doubles.  The model computes *)
(* the same expressions exactly: a float is a record [t, n, d] that is a   *)
(* rational n/d (t = "q"), NaN (t = "nan") or +infinity (t = "inf").       *)
(* Comparisons with a standard deviation are decided on the squares, so    *)
(* no square root is ever approximated.  Rounding error of the doubles is  *)
(* not modelled.                                                           *)
(*                                                                         *)
(* Tables.  A DataFrame is a sequence of rows in the order the caller      *)
(* supplied them; workout_date is a day number; a missing cell is NaN.     *)
(* avg_rpe is kept in tenths (85 is 8.5).                                  *)
(***************************************************************************)
EXTENDS Integers, Sequences, FiniteSets, TLC

VARIABLES
    sessions,     \* the session table the caller holds, rows in supply order
    columns,      \* the optional columns the table has
    z_threshold,  \* AnomalyDetector.z_threshold, set by the constructor
    predictor,    \* the fields of the StrengthPredictor instance
    result,       \* what the last call returned or raised
    date_dtype,   \* the dtype of the caller's workout_date column
    sets_df,      \* the set table the caller holds
    exercises_df, \* the exercise table the caller holds
    engines,      \* the StrengthPredictor instance of each concurrent request
    requests      \* the concurrent requests: kind, table, position, outputs

\* The caller's tables besides the session rows, and the concurrent requests.
tables == <<date_dtype, sets_df, exercises_df>>
concurrent == <<engines, requests>>

vars == <<sessions, columns, z_threshold, predictor, result, tables, concurrent>>

\* The missing-value marker of a table cell (pandas NaN / None).
NaN == -1

----------------------------------------------------------------------------
(* Exact arithmetic on the float values of the code.                       *)

Abs(x) == IF x < 0 THEN -x ELSE x

RECURSIVE GCD(_, _)
GCD(a, b) == IF b = 0 THEN a ELSE GCD(b, a % b)

\* The rational n/d in lowest terms, d > 0.
Q(n, d) ==
    LET g == GCD(Abs(n), Abs(d))
        s == IF d < 0 THEN -1 ELSE 1
    IN  [t |-> "q", n |-> s * (n \div g), d |-> s * (d \div g)]

I(k) == [t |-> "q", n |-> k, d |-> 1]
FNaN == [t |-> "nan", n |-> 0, d |-> 1]
FInf == [t |-> "inf", n |-> 1, d |-> 1]

\* A table cell as a float.
Cell(x) == IF x = NaN THEN FNaN ELSE I(x)

IsNum(a) == a.t = "q"

\* Sums are taken over the least common denominator.
LCM(a, b) == (a \div GCD(a, b)) * b

FAdd(a, b) ==
    IF a.t = "nan" \/ b.t = "nan" THEN FNaN
    ELSE IF a.t = "inf" \/ b.t = "inf" THEN FInf
    ELSE LET l == LCM(a.d, b.d)
         IN  Q(a.n * (l \div a.d) + b.n * (l \div b.d), l)

\* a - b for a finite or NaN b.
FSub(a, b) ==
    IF a.t = "nan" \/ b.t = "nan" THEN FNaN
    ELSE IF a.t = "inf" THEN FInf
    ELSE LET l == LCM(a.d, b.d)
         IN  Q(a.n * (l \div a.d) - b.n * (l \div b.d), l)

\* a * b for a finite b > 0 or a finite a.
FMul(a, b) ==
    IF a.t = "nan" \/ b.t = "nan" THEN FNaN
    ELSE IF a.t = "inf" \/ b.t = "inf" THEN FInf
    ELSE Q(a.n * b.n, a.d * b.d)

\* a / b as numpy divides doubles: x/0 is +inf for x > 0, 0/0 is NaN.
FDiv(a, b) ==
    IF a.t = "nan" \/ b.t = "nan" THEN FNaN
    ELSE IF a.t = "inf" THEN FInf
    ELSE IF b.n = 0 THEN (IF a.n = 0 THEN FNaN ELSE FInf)
    ELSE Q(a.n * b.d, a.d * b.n)

\* Comparisons: every comparison with NaN is false.
FLt(a, b) ==
    /\ a.t # "nan" /\ b.t # "nan"
    /\ a.t # "inf"
    /\ (b.t = "inf" \/ a.n * b.d < b.n * a.d)

FLe(a, b) ==
    /\ a.t # "nan" /\ b.t # "nan"
    /\ (b.t = "inf" \/ (a.t # "inf" /\ a.n * b.d <= b.n * a.d))

FGt(a, b) == FLt(b, a)
FGe(a, b) == FLe(b, a)

\* Python's max(a, b) and min(a, b): the first argument unless the second
\* compares greater (smaller); with a NaN second argument, the first.
PyMax(a, b) == IF FGt(b, a) THEN b ELSE a
PyMin(a, b) == IF FLt(b, a) THEN b ELSE a

\* Python's round(x) of a finite x: to the nearest integer, ties to even.
RoundHalfEven(a) ==
    LET f == a.n \div a.d
        r == a.n - f * a.d
    IN  IF 2 * r < a.d THEN f
        ELSE IF 2 * r > a.d THEN f + 1
        ELSE IF f % 2 = 0 THEN f ELSE f + 1

\* int(x) of a finite x: truncation toward zero.
PyInt(a) == IF a.n >= 0 THEN a.n \div a.d ELSE -((-a.n) \div a.d)

----------------------------------------------------------------------------
(* Series helpers (pandas).                                                *)

RECURSIVE SumSeq(_)
SumSeq(s) == IF s = <<>> THEN 0 ELSE Head(s) + SumSeq(Tail(s))

RECURSIVE SumSq(_)
SumSq(s) == IF s = <<>> THEN 0 ELSE Head(s) * Head(s) + SumSq(Tail(s))

\* The values of a series that are not missing, in order (Series.dropna).
DropNa(s) == SelectSeq(s, LAMBDA x : x # NaN)

\* Series.mean(): the mean of the values that are not missing, NaN if none.
SeriesMean(s) ==
    LET v == DropNa(s)
    IN  IF v = <<>> THEN FNaN ELSE Q(SumSeq(v), Len(v))

\* Series.var() (ddof = 1) of the values that are not missing; NaN below 2.
SeriesVar(s) ==
    LET v == DropNa(s)
        k == Len(v)
    IN  IF k < 2 THEN FNaN
        ELSE Q(k * SumSq(v) - SumSeq(v) * SumSeq(v), k * (k - 1))

\* DataFrame.head(k) and DataFrame.tail(k).
HeadN(s, k) == SubSeq(s, 1, IF k < Len(s) THEN k ELSE Len(s))
TailN(s, k) == SubSeq(s, IF Len(s) > k THEN Len(s) - k + 1 ELSE 1, Len(s))

Col(df, c) == [i \in 1..Len(df) |-> df[i][c]]

\* The caller's frame with its default RangeIndex labels 0..n-1.
WithIndex(rows) ==
    [i \in 1..Len(rows) |-> [idx |-> i - 1, workout_date |-> rows[i].workout_date,
                             estimated_1rm |-> rows[i].estimated_1rm,
                             total_volume |-> rows[i].total_volume,
                             avg_rpe |-> rows[i].avg_rpe,
                             perceived_exertion |-> rows[i].perceived_exertion]]

RECURSIVE InsertByDate(_, _)
InsertByDate(sorted, r) ==
    IF sorted = <<>> THEN <<r>>
    ELSE IF sorted[Len(sorted)].workout_date <= r.workout_date
         THEN Append(sorted, r)
         ELSE Append(InsertByDate(SubSeq(sorted, 1, Len(sorted) - 1), r),
                     sorted[Len(sorted)])

RECURSIVE SortFrom(_, _)
SortFrom(df, acc) ==
    IF df = <<>> THEN acc ELSE SortFrom(Tail(df), InsertByDate(acc, Head(df)))

\* df.sort_values('workout_date'): ascending by date, each row keeping its
\* index label; rows of one date keep their supplied order.
SortValues(df) == SortFrom(df, <<>>)

\* workout_date.diff().dt.days: NaN for the first row.
DaysGap(df) ==
    [i \in 1..Len(df) |->
        IF i = 1 THEN NaN ELSE df[i].workout_date - df[i - 1].workout_date]

RECURSIVE FSum(_)
FSum(s) == IF s = <<>> THEN I(0) ELSE FAdd(Head(s), FSum(Tail(s)))

\* The mean of a float series, NaN entries skipped (Series.mean()).
FMean(s) ==
    LET v == SelectSeq(s, LAMBDA x : x.t # "nan")
    IN  IF v = <<>> THEN FNaN ELSE FDiv(FSum(v), I(Len(v)))

\* Series.pct_change() of a series of values >= 0: NaN for the first entry,
\* (cur - prev) / prev after it, with a missing value first filled from
\* the last value before it (the default fill_method = 'pad').
RECURSIVE Pad(_, _)
Pad(s, last) ==
    IF s = <<>> THEN <<>>
    ELSE LET x == IF Head(s) = NaN THEN last ELSE Head(s)
         IN  <<x>> \o Pad(Tail(s), x)

PctChange(s) ==
    LET p == Pad(s, NaN)
    IN  [i \in 1..Len(s) |->
            IF i = 1 THEN FNaN
            ELSE FDiv(FSub(Cell(p[i]), Cell(p[i - 1])), Cell(p[i - 1]))]


----------------------------------------------------------------------------
(* AnomalyDetector.detect_anomalies                                        *)
(*                                                                         *)
(* An anomaly is [type, date, severity]; the message and the details       *)
(* payload are left out.  Two bookkeeping fields are added: row, the       *)
(* position in the sorted frame of the session it is about, and seq, its   *)
(* position in the list before the final sort.                             *)

\* (value - mean) / std > t and < -t for t >= 0, with std the square root
\* of var, decided on the squares.  A zero std gives, as the float division
\* does, an infinite quotient (or NaN when value = mean).
ZAbove(value, mean, var, t) ==
    LET dev == FSub(value, mean)
    IN  FGt(value, mean) /\ FGt(FMul(dev, dev), FMul(FMul(t, t), var))

ZBelow(value, mean, var, t) ==
    LET dev == FSub(value, mean)
    IN  FLt(value, mean) /\ FGt(FMul(dev, dev), FMul(FMul(t, t), var))

\* Lines 88-94.  The z-score as its sign and its square; 0 when std == 0.
_calculate_z_score(value, series) ==
    LET mean == SeriesMean(series)
        var == SeriesVar(series)
        dev == FSub(I(value), mean)
    IN  IF IsNum(var) /\ var.n = 0 THEN [sign |-> 0, square |-> I(0)]
        ELSE [sign |-> IF FGt(dev, I(0)) THEN 1 ELSE IF FLt(dev, I(0)) THEN -1 ELSE 0,
              square |-> FDiv(FMul(dev, dev), var)]

RECURSIVE Concat(_)
Concat(ss) == IF ss = <<>> THEN <<>> ELSE Head(ss) \o Concat(Tail(ss))

Anomaly(type, df, i, severity) ==
    [type |-> type, date |-> df[i].workout_date, severity |-> severity, row |-> i]

\* A trailing window of 10 rows in place of 5.
RollingWindowOfTen(e, i) == DropNa(SubSeq(e, IF i > 9 THEN i - 9 ELSE 1, i))

\* rolling(window = 5, min_periods = 2): the values of the trailing window
\* that are not missing.
RollingWindow(e, i) == DropNa(SubSeq(e, IF i > 4 THEN i - 4 ELSE 1, i))

\* The performance check measuring each row against the window before it.
PerformanceAtExcludingSelf(df, i, zt) ==
    LET e == Col(df, "estimated_1rm")
        w == IF i = 1 THEN <<>> ELSE RollingWindow(SubSeq(e, 1, i - 1), i - 1)
        rolling_mean == SeriesMean(w)
        rolling_var == SeriesVar(w)
        value == Cell(df[i].estimated_1rm)
    IN  IF Len(w) < 2 THEN <<>>
        ELSE IF rolling_var.n = 0 THEN <<>>
        ELSE IF ZBelow(value, rolling_mean, rolling_var, I(zt))
        THEN <<Anomaly("performance_drop", df, i,
                       IF ZBelow(value, rolling_mean, rolling_var, I(3))
                       THEN "high" ELSE "medium")>>
        ELSE IF ZAbove(value, rolling_mean, rolling_var, I(zt))
        THEN <<Anomaly("performance_spike", df, i, "low")>>
        ELSE <<>>

\* Lines 107-143: one row of the performance check.
PerformanceAt(df, i, zt) ==
    LET w == RollingWindow(Col(df, "estimated_1rm"), i)
        rolling_mean == SeriesMean(w)
        rolling_var == SeriesVar(w)
        value == Cell(df[i].estimated_1rm)
    IN  IF Len(w) < 2 THEN <<>>
        ELSE IF rolling_var.n = 0 THEN <<>>
        ELSE IF ZBelow(value, rolling_mean, rolling_var, I(zt))
        THEN <<Anomaly("performance_drop", df, i,
                       IF ZBelow(value, rolling_mean, rolling_var, I(3))
                       THEN "high" ELSE "medium")>>
        ELSE IF ZAbove(value, rolling_mean, rolling_var, I(zt))
        THEN <<Anomaly("performance_spike", df, i, "low")>>
        ELSE <<>>

_detect_performance_anomalies(df, cols, zt) ==
    IF "estimated_1rm" \notin cols \/ DropNa(Col(df, "estimated_1rm")) = <<>>
    THEN <<>>
    ELSE Concat([i \in 1..Len(df) |-> PerformanceAt(df, i, zt)])

\* The volume check rewritten without the division and without its guard:
\* volume - mean >= threshold * std.
_detect_volume_anomalies_multiplied(df, cols, zt) ==
    IF "total_volume" \notin cols THEN <<>>
    ELSE
    LET mean_volume == SeriesMean(Col(df, "total_volume"))
        var_volume == SeriesVar(Col(df, "total_volume"))
        Far(i) == LET dev == FSub(I(df[i].total_volume), mean_volume)
                  IN  FGe(FMul(dev, dev), FMul(I(zt * zt), var_volume))
    IN  Concat([i \in 1..Len(df) |->
            IF FGe(I(df[i].total_volume), mean_volume) /\ Far(i)
            THEN <<Anomaly("volume_spike", df, i, "medium")>>
            ELSE IF FLe(I(df[i].total_volume), mean_volume) /\ Far(i)
            THEN <<Anomaly("volume_drop", df, i, "low")>>
            ELSE <<>>])

\* Lines 147-188.
_detect_volume_anomalies(df, cols, zt) ==
    IF "total_volume" \notin cols THEN <<>>
    ELSE
    LET mean_volume == SeriesMean(Col(df, "total_volume"))
        var_volume == SeriesVar(Col(df, "total_volume"))
    IN  IF var_volume.n = 0 THEN <<>>
        ELSE Concat([i \in 1..Len(df) |->
                IF ZAbove(I(df[i].total_volume), mean_volume, var_volume, I(zt))
                THEN <<Anomaly("volume_spike", df, i, "medium")>>
                ELSE IF ZBelow(I(df[i].total_volume), mean_volume, var_volume, I(zt))
                THEN <<Anomaly("volume_drop", df, i, "low")>>
                ELSE <<>>])

\* Lines 190-231.  avg_rpe is in tenths: 85 is 8.5.
_detect_fatigue_signals(df, cols) ==
    LET performance_trend == PctChange(Col(df, "estimated_1rm"))
        declining ==
            IF "avg_rpe" \in cols /\ "estimated_1rm" \in cols
            THEN Concat([i \in 1..Len(df) |->
                    IF /\ df[i].avg_rpe # NaN
                       /\ df[i].avg_rpe >= 85
                       /\ FLt(performance_trend[i], Q(-5, 100))
                    THEN <<Anomaly("high_fatigue", df, i, "medium")>>
                    ELSE <<>>])
            ELSE <<>>
        recent == TailN(Col(df, "perceived_exertion"), 3)
        streak ==
            IF /\ "perceived_exertion" \in cols
               /\ Len(recent) >= 3
               /\ \A k \in 1..Len(recent) : recent[k] # NaN /\ recent[k] >= 8
            THEN <<Anomaly("high_fatigue", df, Len(df), "high")>>
            ELSE <<>>
    IN  declining \o streak

\* The gap check with one standard deviation above the mean as its limit.
_detect_training_gaps_one_std(df) ==
    LET days_gap == DaysGap(df)
        mean_gap == SeriesMean(days_gap)
        var_gap == SeriesVar(days_gap)
    IN  IF ~IsNum(mean_gap) \/ (IsNum(var_gap) /\ var_gap.n = 0) THEN <<>>
        ELSE Concat([i \in 1..Len(df) |->
                IF /\ days_gap[i] # NaN
                   /\ days_gap[i] > 14
                   /\ ZAbove(I(days_gap[i]), mean_gap, var_gap, I(1))
                THEN <<Anomaly("long_gap", df, i, "low")>>
                ELSE <<>>])

\* Lines 233-262.
_detect_training_gaps(df) ==
    LET days_gap == DaysGap(df)
        mean_gap == SeriesMean(days_gap)
        var_gap == SeriesVar(days_gap)
    IN  IF ~IsNum(mean_gap) \/ (IsNum(var_gap) /\ var_gap.n = 0) THEN <<>>
        ELSE Concat([i \in 1..Len(df) |->
                IF /\ days_gap[i] # NaN
                   /\ days_gap[i] > 14
                   /\ ZAbove(I(days_gap[i]), mean_gap, var_gap, I(2))
                THEN <<Anomaly("long_gap", df, i, "low")>>
                ELSE <<>>])

\* list.sort(key = date, reverse = True): descending by date and stable,
\* anomalies of one date keep the order they had.
\* A descending sort made of an ascending sort and a reversal: anomalies of
\* one date come out in the reverse of the order they had.
RECURSIVE InsertDescReversing(_, _)
InsertDescReversing(sorted, a) ==
    IF sorted = <<>> THEN <<a>>
    ELSE IF sorted[Len(sorted)].date > a.date
         THEN Append(sorted, a)
         ELSE Append(InsertDescReversing(SubSeq(sorted, 1, Len(sorted) - 1), a),
                     sorted[Len(sorted)])

RECURSIVE InsertDesc(_, _)
InsertDesc(sorted, a) ==
    IF sorted = <<>> THEN <<a>>
    ELSE IF sorted[Len(sorted)].date >= a.date
         THEN Append(sorted, a)
         ELSE Append(InsertDesc(SubSeq(sorted, 1, Len(sorted) - 1), a),
                     sorted[Len(sorted)])

RECURSIVE SortDescFrom(_, _)
SortDescFrom(list, acc) ==
    IF list = <<>> THEN acc ELSE SortDescFrom(Tail(list), InsertDesc(acc, Head(list)))

SortByDateDesc(anomalies) == SortDescFrom(anomalies, <<>>)

\* Lines 75-81: the four checks, in the order they extend the list.
RunDetectors(df, cols, zt) ==
    _detect_performance_anomalies(df, cols, zt)
        \o _detect_volume_anomalies(df, cols, zt)
        \o _detect_fatigue_signals(df, cols)
        \o _detect_training_gaps(df)

Numbered(list) ==
    [i \in 1..Len(list) |->
        [type |-> list[i].type, date |-> list[i].date, severity |-> list[i].severity,
         row |-> list[i].row, seq |-> i]]

MinAnomalySessions == 3

detect_anomalies(frame, cols, zt) ==
    IF Len(frame) < MinAnomalySessions THEN <<>>
    ELSE SortByDateDesc(Numbered(RunDetectors(SortValues(frame), cols, zt)))

----------------------------------------------------------------------------
(* AnomalyDetector.get_health_score                                        *)

\* The length test of get_health_score off by one.
MinHealthSessionsOffByOne == 5 - 1

MinHealthSessions == 5

\* The consistency sub-score with the ideal range read as 2 < avg_gap < 4.
ConsistencyScoreOpenRange(df) ==
    LET gaps == DaysGap(df)
        avg_gap == SeriesMean(gaps)
        gap_variance == SeriesVar(gaps)
        base == IF FLt(I(2), avg_gap) /\ FLt(avg_gap, I(4)) THEN I(25)
                ELSE IF FLe(avg_gap, I(2)) THEN I(20)
                ELSE IF FLe(avg_gap, I(7))
                     THEN FSub(I(20), FMul(FSub(avg_gap, I(4)), I(3)))
                     ELSE PyMax(I(0), FSub(I(15), FSub(avg_gap, I(7))))
        consistency == IF FGt(gap_variance, I(10))
                       THEN FSub(base, PyMin(I(10), FDiv(gap_variance, I(2))))
                       ELSE base
        r == RoundHalfEven(consistency)
    IN  IF r > 0 THEN r ELSE 0

\* Lines 285-304: the consistency sub-score.
ConsistencyScore(df) ==
    LET gaps == DaysGap(df)
        avg_gap == SeriesMean(gaps)
        gap_variance == SeriesVar(gaps)
        base == IF FLe(I(2), avg_gap) /\ FLe(avg_gap, I(4)) THEN I(25)
                ELSE IF FLt(avg_gap, I(2)) THEN I(20)
                ELSE IF FLe(avg_gap, I(7))
                     THEN FSub(I(20), FMul(FSub(avg_gap, I(4)), I(3)))
                     ELSE PyMax(I(0), FSub(I(15), FSub(avg_gap, I(7))))
        consistency == IF FGt(gap_variance, I(10))
                       THEN FSub(base, PyMin(I(10), FDiv(gap_variance, I(2))))
                       ELSE base
        r == RoundHalfEven(consistency)
    IN  IF r > 0 THEN r ELSE 0

\* The progress sub-score without its lower clamp.
ProgressScoreNoFloor(df, cols) ==
    LET e == Col(df, "estimated_1rm")
        half == Len(df) \div 2
        first_half == SeriesMean(HeadN(e, half))
        second_half == SeriesMean(TailN(e, half))
        progress_pct == FMul(FDiv(FSub(second_half, first_half), first_half), I(100))
        progress ==
            IF "estimated_1rm" \in cols /\ DropNa(e) # <<>>
            THEN IF FGt(first_half, I(0))
                 THEN PyMin(I(25), FAdd(Q(25, 2), FMul(progress_pct, I(2))))
                 ELSE Q(25, 2)
            ELSE Q(25, 2)
    IN  RoundHalfEven(progress)

\* Lines 306-319: the progress sub-score.
ProgressScore(df, cols) ==
    LET e == Col(df, "estimated_1rm")
        half == Len(df) \div 2
        first_half == SeriesMean(HeadN(e, half))
        second_half == SeriesMean(TailN(e, half))
        progress_pct == FMul(FDiv(FSub(second_half, first_half), first_half), I(100))
        progress ==
            IF "estimated_1rm" \in cols /\ DropNa(e) # <<>>
            THEN IF FGt(first_half, I(0))
                 THEN PyMin(I(25), PyMax(I(0), FAdd(Q(25, 2), FMul(progress_pct, I(2)))))
                 ELSE Q(25, 2)
            ELSE Q(25, 2)
    IN  RoundHalfEven(progress)

\* round(x) >= j for x = a - 10 * sqrt(var) / m with sqrt(var) / m < 1,
\* decided on the squares; a tie x = j - 1/2 rounds to the even neighbour.
SurdRoundsTo(a, var, m, j) ==
    LET dd == FSub(a, Q(2 * j - 1, 2))
    IN  /\ dd.n > 0
        /\ \/ FGe(dd, I(10))
           \/ LET lhs == FMul(FMul(dd, dd), FMul(m, m))
                  rhs == FMul(I(100), var)
              IN  FGt(lhs, rhs) \/ (lhs = rhs /\ j % 2 = 0)

\* Lines 321-331: the volume sub-score.
VolumeScore(df, cols) ==
    IF "total_volume" \notin cols THEN RoundHalfEven(Q(25, 2))
    ELSE
    LET vols == Col(df, "total_volume")
        volume_trend == FMean(PctChange(vols))
        mean == SeriesMean(vols)
        var == SeriesVar(vols)
        \* std / mean < 1, so min(1, std / mean) is std / mean
        below == mean.n > 0 /\ FLt(var, FMul(mean, mean))
        a == FAdd(Q(25, 2), FMul(volume_trend, I(50)))
    IN  IF below /\ IsNum(a)
        THEN Cardinality({j \in 1..25 : SurdRoundsTo(FAdd(a, I(10)), var, mean, j)})
        ELSE RoundHalfEven(PyMin(I(25), PyMax(I(0), a)))

RECURSIVE MaxStreak(_, _, _)
MaxStreak(pe, high_exertion_streak, max_streak) ==
    IF pe = <<>> THEN max_streak
    ELSE IF Head(pe) # NaN /\ Head(pe) >= 8
         THEN MaxStreak(Tail(pe), high_exertion_streak + 1,
                        IF high_exertion_streak + 1 > max_streak
                        THEN high_exertion_streak + 1 ELSE max_streak)
         ELSE MaxStreak(Tail(pe), 0, max_streak)

\* Lines 333-349: the recovery sub-score.
RecoveryScore(df, cols) ==
    LET recovery == IF "perceived_exertion" \in cols
                    THEN 25 - 3 * MaxStreak(Col(df, "perceived_exertion"), 0, 0)
                    ELSE 25
    IN  IF recovery > 0 THEN recovery ELSE 0

Rating(total) ==
    IF total >= 80 THEN "Excellent"
    ELSE IF total >= 60 THEN "Good"
    ELSE IF total >= 40 THEN "Fair"
    ELSE "Needs Attention"

GetRecommendations(scores) ==
    LET recommendations ==
            (IF scores.consistency < 15 THEN <<"consistency">> ELSE <<>>)
         \o (IF scores.progress < 10 THEN <<"progress">> ELSE <<>>)
         \o (IF scores.recovery < 15 THEN <<"recovery">> ELSE <<>>)
         \o (IF scores.volume < 10 THEN <<"volume">> ELSE <<>>)
    IN  IF recommendations = <<>> THEN <<"keep_up">> ELSE recommendations

get_health_score(frame, cols) ==
    IF Len(frame) < MinHealthSessions
    THEN [score |-> NaN, message |-> "Need at least 5 workouts for health score"]
    ELSE
    LET df == SortValues(frame)
        scores == [consistency |-> ConsistencyScore(df),
                   progress |-> ProgressScore(df, cols),
                   volume |-> VolumeScore(df, cols),
                   recovery |-> RecoveryScore(df, cols)]
        total == scores.consistency + scores.progress + scores.volume + scores.recovery
    IN  [score |-> total, rating |-> Rating(total), breakdown |-> scores,
         recommendations |-> GetRecommendations(scores)]

----------------------------------------------------------------------------
(* State, construction and the caller's table.                             *)

AllColumns == {"estimated_1rm", "total_volume", "avg_rpe", "perceived_exertion"}

\* StrengthPredictor.__init__: no model, an unfitted scaler, and none of the
\* attributes train() creates.
NoAttrs == [set |-> FALSE]
FreshPredictor == [model |-> [name |-> "None"], scaler |-> <<>>, attrs |-> NoAttrs]

NoResult == [op |-> "none"]

\* The caller logs one more session `gap` days after the latest one; a cell
\* of a column the table does not have holds nothing.
LogSession(gap, e1rm, vol, rpe, pe) ==
    LET n == Len(sessions)
        date == IF n = 0 THEN 0 ELSE sessions[n].workout_date + gap
        row == [workout_date |-> date,
                estimated_1rm |-> IF "estimated_1rm" \in columns THEN e1rm ELSE NaN,
                total_volume |-> IF "total_volume" \in columns THEN vol ELSE NaN,
                avg_rpe |-> IF "avg_rpe" \in columns THEN rpe ELSE NaN,
                perceived_exertion |-> IF "perceived_exertion" \in columns THEN pe ELSE NaN]
    IN  /\ result = NoResult
        /\ sessions' = Append(sessions, row)
        /\ UNCHANGED <<columns, z_threshold, predictor, result, tables, concurrent>>

\* The caller takes the answer of the call it made.
Return ==
    /\ result # NoResult
    /\ result' = NoResult
    /\ UNCHANGED <<sessions, columns, z_threshold, predictor, tables, concurrent>>

InitWith(cols, zs) ==
    /\ sessions = <<>>
    /\ columns \in cols
    /\ z_threshold \in zs
    /\ predictor = FreshPredictor
    /\ result = NoResult
    /\ date_dtype = "object"
    /\ sets_df = <<>>
    /\ exercises_df = <<>>
    /\ engines = <<>>
    /\ requests = <<>>

----------------------------------------------------------------------------
(* The health-score specification: tables of up to MaxHealthLen sessions   *)
(* in which each row departs from an ordinary session in at most one cell. *)

MaxHealthLen == 5

HealthGaps == {3, 0, 20}
Health1RM == {10, NaN, 0}
HealthVolumes == {2, 0}
HealthExertion == {7, NaN, 9}

HealthRows ==
    {r \in [gap : HealthGaps, e1rm : Health1RM, vol : HealthVolumes, pe : HealthExertion] :
        Cardinality({c \in {"gap", "e1rm", "vol", "pe"} :
            r[c] # [gap |-> 3, e1rm |-> 10, vol |-> 2, pe |-> 7][c]}) <= 1}

LogHealthSession ==
    /\ Len(sessions) < MaxHealthLen
    /\ \E r \in HealthRows : LogSession(r.gap, r.e1rm, r.vol, 70, r.pe)

GetHealthScore ==
    /\ result = NoResult
    /\ result' = [op |-> "get_health_score", raised |-> "none",
                  out |-> get_health_score(WithIndex(sessions), columns)]
    /\ UNCHANGED <<sessions, columns, z_threshold, predictor, tables, concurrent>>

HealthColumns == {AllColumns, AllColumns \ {"total_volume"}}

InitHealth == InitWith(HealthColumns, {2})

NextHealth == LogHealthSession \/ GetHealthScore \/ Return

SpecHealth == InitHealth /\ [][NextHealth]_vars

----------------------------------------------------------------------------
(* The steady-training specification: uniformly spaced sessions, every     *)
(* session with a higher estimated_1rm than the one before and with        *)
(* perceived_exertion of 7 or less; the volume is free.                    *)

MaxSteadyLen == 5

SteadyGaps == {1, 2, 3, 4, 5, 8, 30}
SteadyStart == {0, 1000}
SteadyRows ==
    {r \in [inc : {1, 5}, vol : {2, 0, 3}, pe : {7, 4}] :
        Cardinality({c \in {"inc", "vol", "pe"} :
            r[c] # [inc |-> 1, vol |-> 2, pe |-> 7][c]}) <= 1}

LogSteadySession ==
    LET n == Len(sessions)
    IN  /\ n < MaxSteadyLen
        /\ \E gap \in SteadyGaps, r \in SteadyRows, start \in SteadyStart :
            /\ n >= 2 => gap = sessions[n].workout_date - sessions[n - 1].workout_date
            /\ n = 0 => gap = 1
            /\ n > 0 => start = 0
            /\ LogSession(gap,
                          IF n = 0 THEN start ELSE sessions[n].estimated_1rm + r.inc,
                          r.vol, 70, r.pe)

InitSteady == InitWith({AllColumns}, {2})

NextSteady == LogSteadySession \/ GetHealthScore \/ Return

SpecSteady == InitSteady /\ [][NextSteady]_vars

----------------------------------------------------------------------------
(* Claims on the health score.                                             *)

HealthScored == result.op = "get_health_score" /\ Len(sessions) >= MinHealthSessions

\* C1.  For every table of at least 5 sessions get_health_score returns a
\* total within [0,100] and each of the four sub-scores within [0,25],
\* also with missing 1RM, missing exertion, all-zero volume or zero-day gaps.
C1_HealthScoreRange ==
    HealthScored =>
        /\ result.out.score \in 0..100
        /\ \A k \in {"consistency", "progress", "volume", "recovery"} :
              result.out.breakdown[k] \in 0..25
        /\ result.out.score = result.out.breakdown.consistency
              + result.out.breakdown.progress + result.out.breakdown.volume
              + result.out.breakdown.recovery

\* A scored table with a zero-day gap, a missing 1RM, a missing exertion
\* and no volume at all.
C1_Witness ==
    /\ HealthScored
    /\ \E i \in 2..Len(sessions) : sessions[i].workout_date = sessions[i - 1].workout_date
    /\ \E i \in 1..Len(sessions) : sessions[i].estimated_1rm = NaN
    /\ \E i \in 1..Len(sessions) : sessions[i].perceived_exertion = NaN
    /\ "total_volume" \in columns
    /\ \E i \in 1..Len(sessions) : sessions[i].total_volume = 0
    /\ result.out.score \in 0..100

UniformlySpaced(df) ==
    \A i \in 3..Len(df) :
        df[i].workout_date - df[i - 1].workout_date = df[2].workout_date - df[1].workout_date

SteadilyIncreasing(df) ==
    /\ \A i \in 1..Len(df) : df[i].estimated_1rm # NaN
    /\ \A i \in 2..Len(df) : df[i].estimated_1rm > df[i - 1].estimated_1rm

ExertionAtMost7(df) ==
    \A i \in 1..Len(df) : df[i].perceived_exertion # NaN /\ df[i].perceived_exertion <= 7

GoodTraining ==
    /\ HealthScored
    /\ UniformlySpaced(sessions) /\ SteadilyIncreasing(sessions) /\ ExertionAtMost7(sessions)

\* C10, as claimed.  Uniformly spaced, steadily increasing 1RM and exertion
\* of 7 or less score at least 60, whatever the spacing and the volume.
C10_GoodTrainingAnySpacing ==
    GoodTraining => result.out.score >= 60 /\ result.out.rating \in {"Good", "Excellent"}

\* C10, amended.  The same with 2 to 4 days between the sessions: the score
\* is at least 60 whatever the volume is.
C10_GoodTrainingScoresGood ==
    (GoodTraining /\ sessions[2].workout_date - sessions[1].workout_date \in 2..4)
        => result.out.score >= 60 /\ result.out.rating \in {"Good", "Excellent"}

\* Good training every 3 days with no volume logged, scored.
C10_Witness ==
    /\ GoodTraining
    /\ sessions[2].workout_date - sessions[1].workout_date = 3
    /\ \A i \in 1..Len(sessions) : sessions[i].total_volume = 0
    /\ result.out.score >= 60

----------------------------------------------------------------------------
(* calculate_1rm (services/strength_predictor.py) and the endpoint         *)
(* calculate_one_rep_max (routers/predictions.py).                         *)

\* reps ** 0.10 and 100 / (52.2 + 41.9 * exp(-0.055 * reps)), in units of
\* 1/FactorScale, rounded to the nearest unit.
FactorScale == 10000

LombardiFactor(reps) ==
    CASE reps = 2 -> 10718 [] reps = 3 -> 11161 [] reps = 5 -> 11746
      [] reps = 10 -> 12589 [] reps = 12 -> 12821 [] reps = 36 -> 14310
      [] reps = 37 -> 14349

MayhewFactor(reps) ==
    CASE reps = 2 -> 11144 [] reps = 3 -> 11399 [] reps = 5 -> 11901
      [] reps = 10 -> 13093 [] reps = 12 -> 13540 [] reps = 36 -> 17246
      [] reps = 37 -> 17338

\* Lines 309-315: the dict of all five formula values.
formulas(weight, reps) ==
    [epley |-> Q(weight * (30 + reps), 30),
     brzycki |-> IF reps < 37 THEN Q(weight * 36, 37 - reps) ELSE I(weight * 2),
     lombardi |-> Q(weight * LombardiFactor(reps), FactorScale),
     oconner |-> Q(weight * (40 + reps), 40),
     mayhew |-> Q(weight * MayhewFactor(reps), FactorScale)]

\* np.mean(list(formulas.values())): the mean of every value of the dict.
MeanOfFormulas(f) ==
    FDiv(FSum(<<f.epley, f.brzycki, f.lombardi, f.oconner, f.mayhew>>), I(5))

\* calculate_1rm without the single-rep shortcut: Epley's formula is applied
\* to one repetition as to any other count.
calculate_1rm_no_shortcut(weight, reps, formula) ==
    IF reps < 1 \/ weight <= 0 THEN I(0)
    ELSE IF reps = 1 THEN Q(weight * 31, 30)
    ELSE LET f == formulas(weight, reps)
         IN  IF formula = "average" THEN MeanOfFormulas(f)
             ELSE IF formula \in DOMAIN f THEN f[formula] ELSE f.epley

calculate_1rm(weight, reps, formula) ==
    IF reps = 1 THEN I(weight)
    ELSE IF reps < 1 \/ weight <= 0 THEN I(0)
    ELSE LET f == formulas(weight, reps)
         IN  IF formula = "average" THEN MeanOfFormulas(f)
             ELSE IF formula \in DOMAIN f THEN f[formula] ELSE f.epley

\* round(x, 1)
Round1(a) == Q(RoundHalfEven(FMul(a, I(10))), 10)

\* The endpoint: the query validation (weight > 0, 1 <= reps <= 30, the
\* formula one of five names) answers 422; lines 204-230 after it.
calculate_one_rep_max(weight, reps, formula) ==
    IF ~(weight > 0 /\ reps >= 1 /\ reps <= 30
         /\ formula \in {"epley", "brzycki", "lombardi", "oconner", "average"})
    THEN [status |-> 422]
    ELSE IF reps = 1
    THEN [status |-> 200, estimated_1rm |-> I(weight), note |-> "1 rep = actual 1RM"]
    ELSE LET all_formulas ==
                 [epley |-> Round1(calculate_1rm(weight, reps, "epley")),
                  brzycki |-> Round1(calculate_1rm(weight, reps, "brzycki")),
                  lombardi |-> Round1(calculate_1rm(weight, reps, "lombardi")),
                  oconner |-> Round1(calculate_1rm(weight, reps, "oconner"))]
         IN  [status |-> 200,
              estimated_1rm |->
                  IF formula = "average"
                  THEN Round1(FDiv(FSum(<<all_formulas.epley, all_formulas.brzycki,
                                          all_formulas.lombardi, all_formulas.oconner>>),
                                   I(4)))
                  ELSE all_formulas[formula],
              all_formulas |-> all_formulas]

Weights1RM == {-5, 0, 100, 225}
Reps1RM == {-1, 0, 1, 2, 3, 5, 10, 12, 36, 37}
FormulaNames == {"epley", "brzycki", "lombardi", "oconner", "mayhew", "average", "wathan"}

Calculate1RM ==
    \E weight \in Weights1RM, reps \in Reps1RM, formula \in FormulaNames :
        /\ result = NoResult
        /\ result' = [op |-> "calculate_1rm", raised |-> "none", weight |-> weight,
                      reps |-> reps, formula |-> formula,
                      out |-> calculate_1rm(weight, reps, formula)]
        /\ UNCHANGED <<sessions, columns, z_threshold, predictor, tables, concurrent>>

CalculateOneRepMax ==
    \E weight \in Weights1RM, reps \in Reps1RM, formula \in FormulaNames :
        /\ result = NoResult
        /\ result' = [op |-> "calculate_one_rep_max", raised |-> "none", weight |-> weight,
                      reps |-> reps, formula |-> formula,
                      out |-> calculate_one_rep_max(weight, reps, formula)]
        /\ UNCHANGED <<sessions, columns, z_threshold, predictor, tables, concurrent>>

InitOneRM == InitWith({AllColumns}, {2})

NextOneRM == Calculate1RM \/ CalculateOneRepMax \/ Return

SpecOneRM == InitOneRM /\ [][NextOneRM]_vars

----------------------------------------------------------------------------
(* Claims on the 1RM estimator.                                            *)

\* C5, as claimed.  For every formula name calculate_1rm returns 0 whenever
\* reps < 1 or weight <= 0, also for weight <= 0 with reps = 1.
C5_DegenerateIsZero ==
    (result.op = "calculate_1rm" /\ (result.reps < 1 \/ result.weight <= 0))
        => result.out = I(0)

\* C6.  For every positive weight and every formula name (known, average
\* or unknown) calculate_1rm(weight, 1, formula) is exactly weight, and so
\* is the estimated_1rm the endpoint answers for 1 rep.
C6_SingleRepIsWeight ==
    /\ (result.op = "calculate_1rm" /\ result.reps = 1 /\ result.weight > 0)
          => result.out = I(result.weight)
    /\ (result.op = "calculate_one_rep_max" /\ result.reps = 1 /\ result.out.status = 200)
          => result.out.estimated_1rm = I(result.weight)

\* A single rep at 225 under a formula name the dict does not know.
C6_Witness ==
    /\ result.op = "calculate_1rm" /\ result.reps = 1
    /\ result.weight = 225 /\ result.formula = "wathan"
    /\ result.out = I(225)

\* C7, as claimed.  For weight > 0 and reps >= 2 the 'average' is the mean
\* of exactly epley, brzycki, lombardi and oconner; mayhew does not enter.
C7_AverageOfFour ==
    (result.op = "calculate_1rm" /\ result.formula = "average"
        /\ result.weight > 0 /\ result.reps >= 2)
        => LET f == formulas(result.weight, result.reps)
           IN  result.out = FDiv(FSum(<<f.epley, f.brzycki, f.lombardi, f.oconner>>), I(4))

----------------------------------------------------------------------------
(* StrengthPredictor (services/strength_predictor.py).                     *)
(*                                                                         *)
(* The regression itself is scikit-learn's.  The model keeps what the      *)
(* repository's code does around it: a fit fails on a missing target, and  *)
(* a fitted model is some affine function of the centred features, its     *)
(* name and coefficients drawn from FitChoices when train() succeeds.      *)

RECURSIVE CumSum(_, _)
CumSum(s, acc) ==
    IF s = <<>> THEN <<>> ELSE <<acc + Head(s)>> \o CumSum(Tail(s), acc + Head(s))

\* rolling(window = 3, min_periods = 1).mean() of estimated_1rm.
RollingAvg1RM(e) ==
    [i \in 1..Len(e) |-> SeriesMean(SubSeq(e, IF i > 2 THEN i - 2 ELSE 1, i))]

\* Lines 60-95: the processed frame, and the feature matrix X as floats.
prepare_data(frame) ==
    LET df == SortValues(frame)
        n == Len(df)
        start_date == df[1].workout_date
        cum == CumSum(Col(df, "total_volume"), 0)
        roll == RollingAvg1RM(Col(df, "estimated_1rm"))
    IN  [i \in 1..n |->
            [workout_date |-> df[i].workout_date,
             estimated_1rm |-> df[i].estimated_1rm,
             days_since_start |-> df[i].workout_date - start_date,
             session_number |-> i,
             cumulative_volume |-> cum[i],
             rolling_avg_1rm |-> roll[i],
             days_since_last |-> IF i = 1 THEN 7
                                 ELSE df[i].workout_date - df[i - 1].workout_date]]

Features(row) ==
    <<I(row.days_since_start), I(row.session_number), I(row.cumulative_volume),
      row.rolling_avg_1rm, I(row.days_since_last)>>

\* StandardScaler.fit: the per-feature means (NaN entries disregarded).
ScalerFit(processed) ==
    [k \in 1..5 |-> FMean([i \in 1..Len(processed) |-> Features(processed[i])[k]])]

\* Lines 113-119: the attributes train() stores before it fits anything.
TrainAttrs(processed) ==
    LET n == Len(processed)
    IN  [set |-> TRUE,
         training_data |-> processed,
         last_date |-> processed[n].workout_date,
         last_days |-> processed[n].days_since_start,
         last_session |-> n,
         last_cumulative_volume |-> processed[n].cumulative_volume,
         last_1rm |-> processed[n].estimated_1rm,
         avg_days_between |-> SeriesMean(Col(processed, "days_since_last"))]

\* The fitted regressors the model draws from: an intercept and one
\* coefficient per feature, applied to the centred features.
FitChoices ==
    {[name |-> "linear", intercept |-> 100, coef |-> <<0, 0, 0, 0, 0>>],
     [name |-> "linear", intercept |-> 100, coef |-> <<1, 0, 0, 0, 0>>],
     [name |-> "ridge", intercept |-> 105, coef |-> <<0, 5, 0, 1, 0>>],
     [name |-> "ridge", intercept |-> 110, coef |-> <<-1, 0, 0, 0, 0>>]}

\* model.predict(scaler.transform(x))
ModelPredict(model, scaler, x) ==
    FAdd(I(model.intercept),
         FSum([k \in 1..5 |-> FMul(I(model.coef[k]), FSub(x[k], scaler[k]))]))

\* Lines 189-222: the i-th forecast.
Forecast(p, i) ==
    LET a == p.attrs
        step == FMul(I(i), a.avg_days_between)
        future_days == FAdd(I(a.last_days), step)
        future_session == a.last_session + i
        avg_volume_per_session == Q(a.last_cumulative_volume, a.last_session)
        future_cumulative_volume ==
            FAdd(I(a.last_cumulative_volume), FMul(I(i), avg_volume_per_session))
        future_rolling_avg == Cell(a.last_1rm)
        x == <<future_days, I(future_session), future_cumulative_volume,
               future_rolling_avg, a.avg_days_between>>
    IN  [date |-> a.last_date + PyInt(step),
         session_number |-> future_session,
         predicted_1rm |-> Round1(ModelPredict(p.model, p.scaler, x)),
         days_from_now |-> PyInt(FSub(future_days, I(a.last_days)))]

\* One pass of the loop with the rolling-average feature taken from the
\* previous pass: the last observed 1RM in the first, the prediction after.
ForecastStepChained(p, i, carried) ==
    LET a == p.attrs
        step == FMul(I(i), a.avg_days_between)
        future_days == FAdd(I(a.last_days), step)
        future_session == a.last_session + i
        avg_volume_per_session == Q(a.last_cumulative_volume, a.last_session)
        future_cumulative_volume ==
            FAdd(I(a.last_cumulative_volume), FMul(I(i), avg_volume_per_session))
        future_rolling_avg == IF i = 1 THEN Cell(a.last_1rm) ELSE carried
        x == <<future_days, I(future_session), future_cumulative_volume,
               future_rolling_avg, a.avg_days_between>>
        predicted_1rm == ModelPredict(p.model, p.scaler, x)
    IN  [entry |-> [date |-> a.last_date + PyInt(step),
                    session_number |-> future_session,
                    predicted_1rm |-> Round1(predicted_1rm),
                    days_from_now |-> PyInt(FSub(future_days, I(a.last_days)))],
         future_rolling_avg |-> predicted_1rm]

\* Lines 189-225: one pass of the loop body.  carried is the value the
\* local future_rolling_avg has on entry; line 203 assigns it anew and
\* line 225 leaves the prediction in it.
ForecastStep(p, i, carried) ==
    LET a == p.attrs
        step == FMul(I(i), a.avg_days_between)
        future_days == FAdd(I(a.last_days), step)
        future_session == a.last_session + i
        avg_volume_per_session == Q(a.last_cumulative_volume, a.last_session)
        future_cumulative_volume ==
            FAdd(I(a.last_cumulative_volume), FMul(I(i), avg_volume_per_session))
        future_rolling_avg == Cell(a.last_1rm)
        x == <<future_days, I(future_session), future_cumulative_volume,
               future_rolling_avg, a.avg_days_between>>
        predicted_1rm == ModelPredict(p.model, p.scaler, x)
    IN  [entry |-> [date |-> a.last_date + PyInt(step),
                    session_number |-> future_session,
                    predicted_1rm |-> Round1(predicted_1rm),
                    days_from_now |-> PyInt(FSub(future_days, I(a.last_days)))],
         future_rolling_avg |-> predicted_1rm]

\* Lines 188-227: the passes i..sessions_ahead, the local handed on.
RECURSIVE ForecastLoop(_, _, _, _)
ForecastLoop(p, i, sessions_ahead, carried) ==
    IF i > sessions_ahead THEN <<>>
    ELSE LET pass == ForecastStep(p, i, carried)
         IN  <<pass.entry>> \o ForecastLoop(p, i + 1, sessions_ahead, pass.future_rolling_avg)

\* sessions_ahead with the quotient rounded to the nearest integer.
SessionsAheadRounded(p, days_ahead) ==
    LET k == RoundHalfEven(FDiv(I(days_ahead), p.attrs.avg_days_between))
    IN  IF k > 1 THEN k ELSE 1

\* Lines 186-187.
SessionsAhead(p, days_ahead) ==
    LET k == PyInt(FDiv(I(days_ahead), p.attrs.avg_days_between))
    IN  IF k > 1 THEN k ELSE 1

\* Lines 180-227, once the model is there.
predict_future(p, sessions_ahead) == [i \in 1..sessions_ahead |-> Forecast(p, i)]

HorizonDays == 365

\* Lines 252-269: the scan over the days 1..365; the day found, or 0.  The
\* session count int(days / avg_days_between) does not decrease with the
\* day, so the first day whose last forecast reaches the target is the
\* first day of the least session count whose forecast does.
ScanDays(p, target_weight) ==
    LET avg == p.attrs.avg_days_between
        \* int(days / avg_days_between), for the positive rational avg
        sessions_on == [days \in 1..HorizonDays |-> (days * avg.d) \div avg.n]
        counts == {sessions_on[days] : days \in 1..HorizonDays} \ {0}
        reached == {k \in counts :
                       FGe(Forecast(p, k).predicted_1rm, I(target_weight))}
        least == CHOOSE k \in reached : \A j \in reached : k <= j
    IN  IF reached = {} THEN 0
        ELSE LET on == {days \in 1..HorizonDays : sessions_on[days] = least}
             IN  CHOOSE days \in on : \A d \in on : days <= d

\* predict_target_date without the test for a target already reached.
predict_target_date_no_shortcut(p, target_weight) ==
    LET a == p.attrs
        current_1rm == Cell(a.last_1rm)
        days == ScanDays(p, target_weight)
        sessions_needed == PyInt(FDiv(I(days), a.avg_days_between))
        first_1rm == Cell(a.training_data[1].estimated_1rm)
        rate_per_day == FDiv(FSub(current_1rm, first_1rm), I(a.last_days))
    IN  IF days > 0
        THEN [status |-> "achievable", target_weight |-> target_weight,
              predicted_date |-> Forecast(p, sessions_needed).date,
              days_from_now |-> days,
              sessions_needed |-> sessions_needed,
              current_1rm |-> Round1(current_1rm)]
        ELSE IF Len(a.training_data) >= 2 /\ a.last_days > 0 /\ FGt(rate_per_day, I(0))
        THEN [status |-> "long_term", target_weight |-> target_weight,
              estimated_days |->
                  PyInt(FDiv(FSub(I(target_weight), current_1rm), rate_per_day))]
        ELSE [status |-> "uncertain"]

\* Lines 242-289, once the model is there.
predict_target_date(p, target_weight) ==
    LET a == p.attrs
        current_1rm == Cell(a.last_1rm)
        days == ScanDays(p, target_weight)
        sessions_needed == PyInt(FDiv(I(days), a.avg_days_between))
        first_1rm == Cell(a.training_data[1].estimated_1rm)
        rate_per_day == FDiv(FSub(current_1rm, first_1rm), I(a.last_days))
    IN  IF FLe(I(target_weight), current_1rm)
        THEN [status |-> "already_achieved"]
        ELSE IF days > 0
        THEN [status |-> "achievable", target_weight |-> target_weight,
              predicted_date |-> Forecast(p, sessions_needed).date,
              days_from_now |-> days,
              sessions_needed |-> sessions_needed,
              current_1rm |-> Round1(current_1rm)]
        ELSE IF Len(a.training_data) >= 2 /\ a.last_days > 0 /\ FGt(rate_per_day, I(0))
        THEN [status |-> "long_term", target_weight |-> target_weight,
              estimated_days |->
                  PyInt(FDiv(FSub(I(target_weight), current_1rm), rate_per_day))]
        ELSE [status |-> "uncertain"]

\* The length test of prepare_data off by one.
MinTrainSessionsOffByOne == 2 - 1

MinTrainSessions == 2

CrossValidateFrom == 5

\* train(df), lines 110-167.
Train ==
    /\ result = NoResult
    /\ IF ~({"total_volume", "estimated_1rm"} \subseteq columns) /\ Len(sessions) >= MinTrainSessions
       THEN /\ result' = [op |-> "train", raised |-> "KeyError"]
            /\ UNCHANGED <<sessions, columns, z_threshold, predictor, tables, concurrent>>
       ELSE IF Len(sessions) < MinTrainSessions
       THEN /\ result' = [op |-> "train", raised |-> "ValueError: Need at least 2 data points"]
            /\ UNCHANGED <<sessions, columns, z_threshold, predictor, tables, concurrent>>
       ELSE LET processed == prepare_data(WithIndex(sessions))
            IN  IF \E i \in 1..Len(processed) : processed[i].estimated_1rm = NaN
                THEN \* The attributes and the scaler are written; then, on fewer
                     \* than CrossValidateFrom rows, fit raises, and from there on
                     \* either the cross-validation raises or it scores NaN, no
                     \* model is the best and models[None] raises.  Line 152
                     \* is not reached.
                     /\ predictor' = [predictor EXCEPT !.attrs = TrainAttrs(processed),
                                                       !.scaler = ScalerFit(processed)]
                     /\ \E raised \in IF Len(processed) >= CrossValidateFrom
                                       THEN {"ValueError: Input contains NaN", "KeyError: None"}
                                       ELSE {"ValueError: Input contains NaN"} :
                            result' = [op |-> "train", raised |-> raised]
                     /\ UNCHANGED <<sessions, columns, z_threshold, tables, concurrent>>
                ELSE \E fit \in FitChoices :
                     /\ predictor' = [model |-> fit,
                                      scaler |-> ScalerFit(processed),
                                      attrs |-> TrainAttrs(processed)]
                     /\ result' = [op |-> "train", raised |-> "none",
                                   out |-> [model_type |-> fit.name,
                                            data_points |-> Len(processed)]]
                     /\ UNCHANGED <<sessions, columns, z_threshold, tables, concurrent>>

DaysAhead == {7, 14, 30}

\* predict_future keeping the sessions it forecast as if they had been trained.
PredictFutureAdvancing ==
    /\ result = NoResult
    /\ \E days_ahead \in DaysAhead :
        IF predictor.model.name = "None"
        THEN /\ result' = [op |-> "predict_future", raised |-> "ValueError: Model not trained"]
             /\ UNCHANGED predictor
        ELSE /\ result' = [op |-> "predict_future", raised |-> "none",
                           days_ahead |-> days_ahead,
                           out |-> predict_future(predictor,
                                                  SessionsAhead(predictor, days_ahead))]
             /\ predictor' = [predictor EXCEPT !.attrs.last_days =
                                 @ + Forecast(predictor,
                                        SessionsAhead(predictor, days_ahead)).days_from_now]
    /\ UNCHANGED <<sessions, columns, z_threshold, tables, concurrent>>

PredictFuture ==
    /\ result = NoResult
    /\ \E days_ahead \in DaysAhead :
        result' = IF predictor.model.name = "None"
                  THEN [op |-> "predict_future", raised |-> "ValueError: Model not trained"]
                  ELSE [op |-> "predict_future", raised |-> "none", days_ahead |-> days_ahead,
                        out |-> predict_future(predictor, SessionsAhead(predictor, days_ahead))]
    /\ UNCHANGED <<sessions, columns, z_threshold, predictor, tables, concurrent>>

TargetWeights == {90, 115, 500}

PredictTargetDate ==
    /\ result = NoResult
    /\ \E target_weight \in TargetWeights :
        result' = IF predictor.model.name = "None"
                  THEN [op |-> "predict_target_date", raised |-> "ValueError: Model not trained"]
                  ELSE [op |-> "predict_target_date", raised |-> "none",
                        target_weight |-> target_weight,
                        out |-> predict_target_date(predictor, target_weight)]
    /\ UNCHANGED <<sessions, columns, z_threshold, predictor, tables, concurrent>>

MaxTrainLen == 3

TrainGaps == {2, 7}
Train1RM == {100, 110, NaN}

LogTrainSession ==
    /\ Len(sessions) < MaxTrainLen
    /\ \E gap \in TrainGaps, e1rm \in Train1RM : LogSession(gap, e1rm, 10, 70, 7)

InitPredictor == InitWith({AllColumns}, {2})

NextPredictor == LogTrainSession \/ Train \/ PredictFuture \/ PredictTargetDate \/ Return

SpecPredictor == InitPredictor /\ [][NextPredictor]_vars

----------------------------------------------------------------------------
(* The anomaly specification: tables of up to MaxAnomalyLen sessions, each *)
(* row one of four kinds of session, under a threshold of 1 or 2 (the      *)
(* default).                                                               *)

MaxAnomalyLen == 7

AnomalyRows ==
    {\* an ordinary session, a day after the one before
     [gap |-> 1, e1rm |-> 100, vol |-> 10, rpe |-> 70, pe |-> 5],
     \* an exceptional one: more weight, more volume, high exertion
     [gap |-> 1, e1rm |-> 200, vol |-> 40, rpe |-> 70, pe |-> 9],
     \* a weak one after a month off, at a high RPE
     [gap |-> 30, e1rm |-> 50, vol |-> 10, rpe |-> 90, pe |-> 9],
     \* a second session on the same day with nothing measured
     [gap |-> 0, e1rm |-> NaN, vol |-> 10, rpe |-> NaN, pe |-> NaN]}

LogAnomalySession ==
    /\ Len(sessions) < MaxAnomalyLen
    /\ \E r \in AnomalyRows : LogSession(r.gap, r.e1rm, r.vol, r.rpe, r.pe)

DetectAnomalies ==
    /\ result = NoResult
    /\ result' = [op |-> "detect_anomalies", raised |-> "none",
                  out |-> detect_anomalies(WithIndex(sessions), columns, z_threshold)]
    /\ UNCHANGED <<sessions, columns, z_threshold, predictor, tables, concurrent>>

CalculateZScore ==
    /\ result = NoResult
    /\ Len(sessions) > 0
    /\ \E value \in {10, 40} :
        result' = [op |-> "_calculate_z_score", raised |-> "none", value |-> value,
                   out |-> _calculate_z_score(value, Col(sessions, "total_volume"))]
    /\ UNCHANGED <<sessions, columns, z_threshold, predictor, tables, concurrent>>

InitAnomaly == InitWith({AllColumns}, {1, 2})

NextAnomaly == LogAnomalySession \/ DetectAnomalies \/ CalculateZScore \/ Return

SpecAnomaly == InitAnomaly /\ [][NextAnomaly]_vars

----------------------------------------------------------------------------
(* The performance specification: the same sessions in histories of up to  *)
(* MaxPerformanceLen, one more than the rolling window holds, and the      *)
(* thresholds 0, 1 and 2.                                                   *)

MaxPerformanceLen == 6

LogPerformanceSession ==
    /\ Len(sessions) < MaxPerformanceLen
    /\ \E r \in AnomalyRows : LogSession(r.gap, r.e1rm, r.vol, r.rpe, r.pe)

InitPerformance == InitWith({AllColumns}, {0, 1, 2})

NextPerformance == LogPerformanceSession \/ DetectAnomalies \/ Return

SpecPerformance == InitPerformance /\ [][NextPerformance]_vars

----------------------------------------------------------------------------
(* Claims on detect_anomalies.                                             *)

Detected == result.op = "detect_anomalies"

\* The place of a detector in the order the checks run.
DetectorRank(type) ==
    CASE type \in {"performance_drop", "performance_spike"} -> 1
      [] type \in {"volume_spike", "volume_drop"} -> 2
      [] type = "high_fatigue" -> 3
      [] type = "long_gap" -> 4

\* C8: the list detect_anomalies returns is sorted by date, most recent
\* first; two anomalies of one date appear performance before volume before
\* fatigue before gaps, and two of one detector in the order that detector
\* emitted them.
C8_AnomalyOrdering ==
    Detected =>
        \A i, j \in 1..Len(result.out) :
            i < j =>
                \/ result.out[i].date > result.out[j].date
                \/ /\ result.out[i].date = result.out[j].date
                   /\ DetectorRank(result.out[i].type) <= DetectorRank(result.out[j].type)
                   /\ result.out[i].seq < result.out[j].seq

\* A list with anomalies of all four detectors on one date, two of them from
\* the fatigue check, and an anomaly of another date.
C8_Witness ==
    /\ Detected
    /\ \E i, j \in 1..Len(result.out) : result.out[i].date # result.out[j].date
    /\ \E d \in {a.date : a \in {result.out[i] : i \in 1..Len(result.out)}} :
        LET same == {i \in 1..Len(result.out) : result.out[i].date = d}
        IN  /\ {DetectorRank(result.out[i].type) : i \in same} = 1..4
            /\ Cardinality({i \in same : result.out[i].type = "high_fatigue"}) = 2

\* std() of the series exists and is 0: at least two values are present and
\* they are all the same.
ZeroStd(series) ==
    /\ Len(DropNa(series)) >= 2
    /\ \A i, j \in 1..Len(series) :
        series[i] # NaN /\ series[j] # NaN => series[i] = series[j]

TypesOf(list) == {list[i].type : i \in 1..Len(list)}

\* C9: when the series a check measures against has a standard deviation of
\* zero, detect_anomalies emits nothing of that check's category: no
\* performance anomaly for a row whose rolling 1RM window is constant, no
\* volume anomaly when every total_volume is the same, no long_gap when
\* every gap is the same; and the z-score helper gives 0.
C9_ZeroVarianceFiresNothing ==
    LET df == SortValues(WithIndex(sessions))
    IN  /\ Detected =>
            /\ ZeroStd(Col(df, "total_volume")) =>
                   TypesOf(result.out) \cap {"volume_spike", "volume_drop"} = {}
            /\ ZeroStd(DaysGap(df)) => "long_gap" \notin TypesOf(result.out)
            /\ \A i \in 1..Len(df) :
                   ZeroStd(RollingWindow(Col(df, "estimated_1rm"), i)) =>
                       \A k \in 1..Len(result.out) :
                           result.out[k].row = i =>
                               DetectorRank(result.out[k].type) # 1
        /\ result.op = "_calculate_z_score" /\ ZeroStd(Col(df, "total_volume")) =>
               result.out = [sign |-> 0, square |-> I(0)]

\* Every total_volume is the same and one rolling window is constant, while
\* another row does raise a performance anomaly.
C9_Witness ==
    LET df == SortValues(WithIndex(sessions))
    IN  /\ Detected
        /\ Len(df) >= MinAnomalySessions
        /\ ZeroStd(Col(df, "total_volume"))
        /\ \E i \in 1..Len(df) : ZeroStd(RollingWindow(Col(df, "estimated_1rm"), i))
        /\ \E k \in 1..Len(result.out) : DetectorRank(result.out[k].type) = 1

----------------------------------------------------------------------------
(* Claims on the predictor's protocol.                                     *)

NotTrainedError == "ValueError: Model not trained"

InsufficientDataError == "ValueError: Need at least 2 data points"

----------------------------------------------------------------------------
(* TrainingRecommender.suggest_deload (services/recommender.py).  The sets  *)
(* table is an argument the method never reads.                            *)

MinDeloadSessions == 8

RecentSessions == 12

MinDeloadDays == 21

BreakDays == 7

DeloadAfter == 16

\* The index labels of the rows that follow a gap of BreakDays or more, in
\* the order of the sorted frame: gaps[gaps >= 7].index.
LongBreaks(df) ==
    LET gaps == DaysGap(df)
    IN  Concat([i \in 1..Len(df) |->
            IF gaps[i] # NaN /\ gaps[i] >= BreakDays THEN <<df[i].idx>> ELSE <<>>])

\* The method with the count of sessions since the last break checked first.
suggest_deload_count_first(frame, cols) ==
    IF Len(frame) < MinDeloadSessions
    THEN [needs_deload |-> FALSE, reason |-> "Not enough training history"]
    ELSE
    LET df == SortValues(frame)
        recent == TailN(df, RecentSessions)
        date_range == recent[Len(recent)].workout_date - recent[1].workout_date
        exertion_trend == DropNa(Col(recent, "perceived_exertion"))
        half == Len(exertion_trend) \div 2
        first_half == SeriesMean(HeadN(exertion_trend, half))
        second_half == SeriesMean(TailN(exertion_trend, half))
        long_breaks == LongBreaks(df)
        workouts_since_break ==
            IF Len(long_breaks) > 0
            THEN Len(df) - long_breaks[Len(long_breaks)]
            ELSE Len(df)
    IN  IF date_range < MinDeloadDays
        THEN [needs_deload |-> FALSE, reason |-> "Training period too short for deload"]
        ELSE IF workouts_since_break >= DeloadAfter
        THEN [needs_deload |-> TRUE, reason |-> "workouts since last break",
              workouts_since_break |-> workouts_since_break]
        ELSE IF /\ "perceived_exertion" \in cols
                /\ Len(exertion_trend) >= 4
                /\ FGt(second_half, FAdd(first_half, I(1)))
        THEN [needs_deload |-> TRUE,
              reason |-> "Perceived exertion increasing - signs of accumulated fatigue"]
        ELSE [needs_deload |-> FALSE,
              workouts_until_deload |-> DeloadAfter - workouts_since_break]

suggest_deload(frame, cols) ==
    IF Len(frame) < MinDeloadSessions
    THEN [needs_deload |-> FALSE, reason |-> "Not enough training history"]
    ELSE
    LET df == SortValues(frame)
        recent == TailN(df, RecentSessions)
        date_range == recent[Len(recent)].workout_date - recent[1].workout_date
        exertion_trend == DropNa(Col(recent, "perceived_exertion"))
        half == Len(exertion_trend) \div 2
        first_half == SeriesMean(HeadN(exertion_trend, half))
        second_half == SeriesMean(TailN(exertion_trend, half))
        long_breaks == LongBreaks(df)
        workouts_since_break ==
            IF Len(long_breaks) > 0
            THEN Len(df) - long_breaks[Len(long_breaks)]
            ELSE Len(df)
    IN  IF date_range < MinDeloadDays
        THEN [needs_deload |-> FALSE, reason |-> "Training period too short for deload"]
        ELSE IF /\ "perceived_exertion" \in cols
                /\ Len(exertion_trend) >= 4
                /\ FGt(second_half, FAdd(first_half, I(1)))
        THEN [needs_deload |-> TRUE,
              reason |-> "Perceived exertion increasing - signs of accumulated fatigue"]
        ELSE IF workouts_since_break >= DeloadAfter
        THEN [needs_deload |-> TRUE, reason |-> "workouts since last break",
              workouts_since_break |-> workouts_since_break]
        ELSE [needs_deload |-> FALSE,
              workouts_until_deload |-> DeloadAfter - workouts_since_break]

Reverse(s) == [i \in 1..Len(s) |-> s[Len(s) + 1 - i]]

\* The caller hands the sessions over oldest first, as the router's query
\* orders them, or newest first; the frame gets the default index 0, 1, ...
SuggestDeload ==
    /\ result = NoResult
    /\ \E newest_first \in BOOLEAN :
        result' = [op |-> "suggest_deload", raised |-> "none",
                   newest_first |-> newest_first,
                   out |-> suggest_deload(
                               WithIndex(IF newest_first THEN Reverse(sessions)
                                         ELSE sessions),
                               columns)]
    /\ UNCHANGED <<sessions, columns, z_threshold, predictor, tables, concurrent>>

----------------------------------------------------------------------------
(* The deload specification: histories of up to MaxDeloadLen sessions      *)
(* trained every day or every second day, with at most MaxBreaks breaks of *)
(* a week, the exertion 6 up to some session and 8 from then on.           *)

MaxDeloadLen == 17

MaxBreaks == 1

ShortGaps == {1, 2}

GapsOf(table) == {table[i].workout_date - table[i - 1].workout_date : i \in 2..Len(table)}

BreaksOf(table) ==
    {i \in 2..Len(table) : table[i].workout_date - table[i - 1].workout_date >= BreakDays}

LogDeloadSession ==
    /\ Len(sessions) < MaxDeloadLen
    /\ \E gap \in ShortGaps \cup {BreakDays}, pe \in {6, 8} :
        /\ gap \in ShortGaps => GapsOf(sessions) \cap ShortGaps \subseteq {gap}
        /\ gap = BreakDays => Cardinality(BreaksOf(sessions)) < MaxBreaks
        /\ sessions # <<>> => pe >= sessions[Len(sessions)].perceived_exertion
        /\ LogSession(gap, 100, 10, 70, pe)

DeloadColumns == {AllColumns, AllColumns \ {"perceived_exertion"}}

InitDeload == InitWith(DeloadColumns, {2})

NextDeload == LogDeloadSession \/ SuggestDeload \/ Return

SpecDeload == InitDeload /\ [][NextDeload]_vars

----------------------------------------------------------------------------
(* The short-history specification: tables of up to MaxShortLen sessions,  *)
(* and every operation that asks for a minimum number of them.             *)

MaxShortLen == 8

ShortRows ==
    {[gap |-> 3, e1rm |-> 100, vol |-> 10, rpe |-> 70, pe |-> 7],
     [gap |-> 0, e1rm |-> NaN, vol |-> 0, rpe |-> NaN, pe |-> 9]}

LogShortSession ==
    /\ Len(sessions) < MaxShortLen
    /\ \E r \in ShortRows : LogSession(r.gap, r.e1rm, r.vol, r.rpe, r.pe)

ShortColumns == {AllColumns, {}}

InitShort == InitWith(ShortColumns, {2})

NextShort ==
    \/ LogShortSession
    \/ Train
    \/ DetectAnomalies
    \/ GetHealthScore
    \/ SuggestDeload
    \/ Return

SpecShort == InitShort /\ [][NextShort]_vars

----------------------------------------------------------------------------
(* Claims on the deload rule and on short histories.                       *)

\* The sessions from the one that follows the last break of BreakDays or
\* more to the last one; all of them when there is no such break.
SessionsSinceBreak(table) ==
    LET breaks == BreaksOf(table)
    IN  IF breaks = {} THEN Len(table)
        ELSE Len(table) + 1 - (CHOOSE i \in breaks : \A j \in breaks : j <= i)

\* The days the trailing RecentSessions sessions cover.
RecentDays(table) ==
    LET recent == TailN(table, RecentSessions)
    IN  IF recent = <<>> THEN 0
        ELSE recent[Len(recent)].workout_date - recent[1].workout_date

\* C2: when 16 or more sessions have been logged since the last gap of at
\* least 7 days (or since the start, without such a gap), suggest_deload
\* answers needs_deload = true.
C2_DeloadAfter16Sessions ==
    result.op = "suggest_deload" /\ SessionsSinceBreak(sessions) >= DeloadAfter =>
        result.out.needs_deload

\* C2 under the preconditions of the deload rule: at least 8 sessions, and
\* at least 21 days covered by the trailing 12 of them.
C2_DeloadAfter16SessionsIn21Days ==
    /\ result.op = "suggest_deload"
    /\ SessionsSinceBreak(sessions) >= DeloadAfter
    /\ RecentDays(sessions) >= MinDeloadDays
    => result.out.needs_deload

----------------------------------------------------------------------------
(* TrainingRecommender.analyze_training_balance and                        *)
(* _calculate_balance_score (services/recommender.py), from the count of   *)
(* working sets of each muscle group on.  The volume, the target_range and *)
(* the recommendation text of a group are left out.                        *)

\* The keys of VOLUME_TARGETS in the order the dict holds them.
MuscleOrder == <<"chest", "back", "shoulders", "legs", "arms", "core">>

Muscles == {MuscleOrder[i] : i \in 1..Len(MuscleOrder)}

VOLUME_TARGETS ==
    [chest |-> [min |-> 10, max |-> 20, optimal |-> 14],
     back |-> [min |-> 10, max |-> 20, optimal |-> 16],
     shoulders |-> [min |-> 8, max |-> 16, optimal |-> 12],
     legs |-> [min |-> 12, max |-> 22, optimal |-> 16],
     arms |-> [min |-> 6, max |-> 14, optimal |-> 10],
     core |-> [min |-> 4, max |-> 12, optimal |-> 8]]

RECOVERY_DAYS ==
    [chest |-> 2, back |-> 2, shoulders |-> 2, legs |-> 2, arms |-> 1, core |-> 1]

\* The status with the minimum itself counted as undertrained.
StatusOfMinExcluded(muscle, sets) ==
    IF sets <= VOLUME_TARGETS[muscle].min THEN "undertrained"
    ELSE IF sets > VOLUME_TARGETS[muscle].max THEN "overtrained"
    ELSE "optimal"

\* Lines 107-116.
StatusOf(muscle, sets) ==
    IF sets < VOLUME_TARGETS[muscle].min THEN "undertrained"
    ELSE IF sets > VOLUME_TARGETS[muscle].max THEN "overtrained"
    ELSE "optimal"

\* Lines 101-124: muscle_group_counts.get(muscle, 0) for each target group.
Analysis(counts) ==
    [muscle \in Muscles |-> [sets |-> counts[muscle],
                             status |-> StatusOf(muscle, counts[muscle])]]

\* Line 127: sorted(analysis.items(), key = sets, reverse = True), stable.
RECURSIVE InsertBySets(_, _, _)
InsertBySets(sorted, muscle, analysis) ==
    IF sorted = <<>> THEN <<muscle>>
    ELSE IF analysis[sorted[Len(sorted)]].sets >= analysis[muscle].sets
         THEN Append(sorted, muscle)
         ELSE Append(InsertBySets(SubSeq(sorted, 1, Len(sorted) - 1), muscle, analysis),
                     sorted[Len(sorted)])

RECURSIVE SortedFrom(_, _, _)
SortedFrom(i, acc, analysis) ==
    IF i > Len(MuscleOrder) THEN acc
    ELSE SortedFrom(i + 1, InsertBySets(acc, MuscleOrder[i], analysis), analysis)

SortedMuscles(analysis) == SortedFrom(1, <<>>, analysis)

\* The score of one group without the floor of the above-maximum branch.
MuscleScoreNoFloor(muscle, sets) ==
    LET targets == VOLUME_TARGETS[muscle]
        distance_from_optimal == Abs(sets - targets.optimal)
        below == targets.optimal - targets.min
        above == targets.max - targets.optimal
        max_distance == IF above > below THEN above ELSE below
    IN  IF targets.min <= sets /\ sets <= targets.max
        THEN IF max_distance > 0
             THEN FSub(I(100), FMul(Q(distance_from_optimal, max_distance), I(30)))
             ELSE I(100)
        ELSE IF sets < targets.min
        THEN PyMax(I(0), FMul(I(50), Q(sets, targets.min)))
        ELSE I(70 - (sets - targets.max) * 5)

\* Lines 144-161: the score of one group.
MuscleScore(muscle, sets) ==
    LET targets == VOLUME_TARGETS[muscle]
        distance_from_optimal == Abs(sets - targets.optimal)
        below == targets.optimal - targets.min
        above == targets.max - targets.optimal
        max_distance == IF above > below THEN above ELSE below
    IN  IF targets.min <= sets /\ sets <= targets.max
        THEN IF max_distance > 0
             THEN FSub(I(100), FMul(Q(distance_from_optimal, max_distance), I(30)))
             ELSE I(100)
        ELSE IF sets < targets.min
        THEN PyMax(I(0), FMul(I(50), Q(sets, targets.min)))
        ELSE PyMax(I(0), I(70 - (sets - targets.max) * 5))

\* Lines 167-174.
BalanceRating(final_score) ==
    IF final_score >= 80 THEN "Excellent"
    ELSE IF final_score >= 60 THEN "Good"
    ELSE IF final_score >= 40 THEN "Fair"
    ELSE "Needs Work"

\* Lines 138-179.
_calculate_balance_score(analysis) ==
    LET total_score == FSum([i \in 1..Len(MuscleOrder) |->
                                MuscleScore(MuscleOrder[i], analysis[MuscleOrder[i]].sets)])
        max_score == Len(MuscleOrder) * 100
        final_score == IF max_score > 0
                       THEN RoundHalfEven(FMul(FDiv(total_score, I(max_score)), I(100)))
                       ELSE 0
    IN  [score |-> final_score, rating |-> BalanceRating(final_score)]

\* Lines 101-136, for a window that holds some workout.
BalanceOf(counts) ==
    LET analysis == Analysis(counts)
        sorted_muscles == SortedMuscles(analysis)
    IN  [muscle_groups |-> analysis,
         most_trained |-> sorted_muscles[1],
         least_trained |-> sorted_muscles[Len(sorted_muscles)],
         overall_balance |-> _calculate_balance_score(analysis)]

----------------------------------------------------------------------------
(* The balance specification: the analysis of every assignment of a count  *)
(* of working sets to the six groups, the counts drawn from SetCounts.     *)

MaxSets == 40

SetCounts == {0, 5, 10, 14, 23, MaxSets}

AnalyzeCounts ==
    /\ result = NoResult
    /\ \E counts \in [Muscles -> SetCounts] :
        result' = [op |-> "analyze_training_balance", raised |-> "none",
                   counts |-> counts, out |-> BalanceOf(counts)]
    /\ UNCHANGED <<sessions, columns, z_threshold, predictor, tables, concurrent>>

InitBalance == InitWith({AllColumns}, {2})

NextBalance == AnalyzeCounts \/ Return

SpecBalance == InitBalance /\ [][NextBalance]_vars

----------------------------------------------------------------------------
(* Claims on the training balance.                                         *)

Analyzed == result.op = "analyze_training_balance"

\* C11: for any nonnegative counts of working sets of the six groups, the
\* overall_balance score of analyze_training_balance is within 0..100.
C11_BalanceScoreRange ==
    Analyzed => result.out.overall_balance.score \in 0..100

\* One group so far above its maximum that its raw score is negative, the
\* others without a set: the score is 0.
C11_Witness ==
    /\ Analyzed
    /\ result.counts["chest"] = MaxSets
    /\ \A m \in Muscles \ {"chest"} : result.counts[m] = 0
    /\ result.out.overall_balance.score = 0

\* C12: each of the six groups is undertrained iff its count of working
\* sets is below its min, overtrained iff above its max, optimal otherwise;
\* most_trained has the greatest count and least_trained the least; with
\* one group above its max and the others at 0 that group is overtrained,
\* the others undertrained and least_trained has no set.
C12_BalanceClassification ==
    Analyzed =>
        LET counts == result.counts
            out == result.out
        IN  /\ \A m \in Muscles :
                /\ out.muscle_groups[m].sets = counts[m]
                /\ out.muscle_groups[m].status = "undertrained"
                       <=> counts[m] < VOLUME_TARGETS[m].min
                /\ out.muscle_groups[m].status = "overtrained"
                       <=> counts[m] > VOLUME_TARGETS[m].max
                /\ out.muscle_groups[m].status = "optimal"
                       <=> /\ counts[m] >= VOLUME_TARGETS[m].min
                           /\ counts[m] <= VOLUME_TARGETS[m].max
            /\ \A m \in Muscles : counts[out.most_trained] >= counts[m]
            /\ \A m \in Muscles : counts[out.least_trained] <= counts[m]
            /\ \A m \in Muscles :
                (/\ counts[m] > VOLUME_TARGETS[m].max
                 /\ \A o \in Muscles \ {m} : counts[o] = 0)
                => /\ out.muscle_groups[m].status = "overtrained"
                   /\ \A o \in Muscles \ {m} :
                          out.muscle_groups[o].status = "undertrained"
                   /\ out.most_trained = m
                   /\ counts[out.least_trained] = 0

\* Legs at 23 sets, one above their maximum, and no set for any other group.
C12_Witness ==
    /\ Analyzed
    /\ result.counts["legs"] = 23
    /\ \A o \in Muscles \ {"legs"} : result.counts[o] = 0
    /\ result.out.muscle_groups["legs"].status = "overtrained"
    /\ result.out.least_trained # "legs"

\* C13: the rating of the balance score is the rating the health score
\* gives the same number: >= 80 Excellent, >= 60 Good, >= 40 Fair, otherwise
\* Needs Attention.
C13_SameRatingScale ==
    Analyzed =>
        result.out.overall_balance.rating = Rating(result.out.overall_balance.score)

----------------------------------------------------------------------------
(* Claims on the forecasts.                                                *)

\* The rows the last call of train was given: the table as it was then.
TrainedOn == SubSeq(sessions, 1, predictor.attrs.last_session)

\* The instance holds a model and its last train was the successful one,
\* on a table of unique dates.
TrainedOnUniqueDates ==
    /\ predictor.model.name # "None"
    /\ \A i \in 1..Len(TrainedOn) : TrainedOn[i].estimated_1rm # NaN
    /\ \A i, j \in 1..Len(TrainedOn) :
        i # j => TrainedOn[i].workout_date # TrainedOn[j].workout_date

\* The mean of days_since_last: 7 for the first session and the gaps of the
\* others, over the number of sessions.
AvgDaysBetween ==
    Q(7 + TrainedOn[Len(TrainedOn)].workout_date - TrainedOn[1].workout_date,
      Len(TrainedOn))

\* floor(k * n / d) for k >= 0 and the positive rational n/d.
FloorTimes(k, a) == (k * a.n) \div a.d

\* floor(k / (n/d))
FloorOver(k, a) == (k * a.d) \div a.n

\* C14: after a successful train on a history with unique dates,
\* predict_future(days_ahead = d) returns max(1, floor(d / avg_days_between))
\* entries; entry i has session_number = training sessions + i and
\* days_from_now = floor(i * avg_days_between), positive and non-decreasing.
C14_ForecastShape ==
    result.op = "predict_future" /\ result.raised = "none" /\ TrainedOnUniqueDates =>
        LET out == result.out
            k == FloorOver(result.days_ahead, AvgDaysBetween)
        IN  /\ Len(out) = IF k > 1 THEN k ELSE 1
            /\ \A i \in 1..Len(out) :
                /\ out[i].session_number = Len(TrainedOn) + i
                /\ out[i].days_from_now = FloorTimes(i, AvgDaysBetween)
                /\ out[i].days_from_now > 0
                /\ i > 1 => out[i].days_from_now >= out[i - 1].days_from_now
                /\ i > 1 => out[i].session_number > out[i - 1].session_number

\* Fourteen days ahead of three sessions two days apart: avg_days_between
\* is 11/3, three entries come back, 3, 7 and 11 days from now.
C14_Witness ==
    /\ result.op = "predict_future"
    /\ result.raised = "none"
    /\ TrainedOnUniqueDates
    /\ result.days_ahead = 14
    /\ AvgDaysBetween = Q(11, 3)
    /\ Len(result.out) = 3
    /\ result.out[3].days_from_now = 11

\* The days 1..365 on which at least one session is forecast and the last
\* forecast reaches the target.
ReachingDays(target_weight) ==
    LET counts == {FloorOver(d, AvgDaysBetween) : d \in 1..HorizonDays} \ {0}
        reaching == {k \in counts :
                        FGe(Forecast(predictor, k).predicted_1rm, I(target_weight))}
    IN  {d \in 1..HorizonDays : FloorOver(d, AvgDaysBetween) \in reaching}

-----------------------------------------------------------------------------
(* TrainingRecommender over the caller's three tables: the workout rows     *)
(* (sessions, with an id), the set rows and the exercise catalog.  The time *)
(* of a call is the calendar day and whether the clock reads exactly        *)
(* midnight; a workout_date converts to midnight of its day.                *)

\* DataFrame.merge(exercises_df[['id', 'muscle_group']], left_on='exercise_id',
\* right_on='id'): the inner join, rows in the order of the left table.
RECURSIVE MatchExercises(_, _)
MatchExercises(row, exs) ==
    IF exs = <<>> THEN <<>>
    ELSE (IF Head(exs).id = row.exercise_id
          THEN <<[muscle_group |-> Head(exs).muscle_group] @@ row>>
          ELSE <<>>) \o MatchExercises(row, Tail(exs))

RECURSIVE MergeExercises(_, _)
MergeExercises(sets, exs) ==
    IF sets = <<>> THEN <<>>
    ELSE MatchExercises(Head(sets), exs) \o MergeExercises(Tail(sets), exs)

\* sets_df.merge(workouts_df[['id', 'workout_date']], left_on='workout_id',
\* right_on='id').
RECURSIVE MatchWorkouts(_, _)
MatchWorkouts(row, workouts) ==
    IF workouts = <<>> THEN <<>>
    ELSE (IF Head(workouts).id = row.workout_id
          THEN <<[workout_date |-> Head(workouts).workout_date] @@ row>>
          ELSE <<>>) \o MatchWorkouts(row, Tail(workouts))

RECURSIVE MergeWorkouts(_, _)
MergeWorkouts(sets, workouts) ==
    IF sets = <<>> THEN <<>>
    ELSE MatchWorkouts(Head(sets), workouts) \o MergeWorkouts(Tail(sets), workouts)

\* workout_date >= datetime.now() - timedelta(days=days).
OnOrAfterCutoff(date, now, days) ==
    IF now.midnight THEN date >= now.day - days ELSE date > now.day - days

\* working_sets.groupby('muscle_group').size(), read with .get(muscle, 0).
muscle_group_counts(workouts, sets, exs, now, days) ==
    LET recent_workouts == SelectSeq(workouts,
                               LAMBDA w : OnOrAfterCutoff(w.workout_date, now, days))
        recent_workout_ids == {recent_workouts[i].id : i \in 1..Len(recent_workouts)}
        recent_sets == SelectSeq(sets, LAMBDA r : r.workout_id \in recent_workout_ids)
        sets_with_muscles == MergeExercises(recent_sets, exs)
        working_sets == SelectSeq(sets_with_muscles, LAMBDA r : r.set_type = "working")
    IN  [muscle \in Muscles |->
            Len(SelectSeq(working_sets, LAMBDA r : r.muscle_group = muscle))]

analyze_training_balance(workouts, sets, exs, now, days) ==
    LET recent_workouts == SelectSeq(workouts,
                               LAMBDA w : OnOrAfterCutoff(w.workout_date, now, days))
    IN  IF Len(recent_workouts) = 0
        THEN [status |-> "no_data"]
        ELSE [period_days |-> days, total_workouts |-> Len(recent_workouts)]
                 @@ BalanceOf(muscle_group_counts(workouts, sets, exs, now, days))

\* Series.unique().tolist(): the values in the order they first appear.
RECURSIVE Unique(_, _)
Unique(values, seen) ==
    IF values = <<>> THEN seen
    ELSE Unique(Tail(values),
                IF \E i \in 1..Len(seen) : seen[i] = Head(values)
                THEN seen ELSE Append(seen, Head(values)))

NeverTrained == 999

_get_days_since_trained(workouts, sets, exs, now) ==
    LET merged == MergeExercises(MergeWorkouts(sets, workouts), exs)
    IN  [muscle \in Muscles |->
            LET muscle_data == SelectSeq(merged, LAMBDA r : r.muscle_group = muscle)
                dates == {muscle_data[i].workout_date : i \in 1..Len(muscle_data)}
            IN  IF Len(muscle_data) > 0
                THEN now.day - (CHOOSE d \in dates : \A e \in dates : e <= d)
                ELSE NeverTrained]

\* _get_exercise_suggestions: per group one compound exercise, one isolation
\* exercise, then others up to two.  The catalogs here hold at most one
\* exercise per group, so every sample() has a single outcome.
RECURSIVE _get_exercise_suggestions(_, _)
_get_exercise_suggestions(exs, muscle_groups) ==
    IF muscle_groups = <<>> THEN <<>>
    ELSE LET muscle == Head(muscle_groups)
             muscle_exercises == SelectSeq(exs, LAMBDA e : e.muscle_group = muscle)
         IN  [i \in 1..Len(muscle_exercises) |->
                 [exercise_id |-> muscle_exercises[i].id, muscle_group |-> muscle,
                  is_compound |-> muscle_exercises[i].is_compound]]
                 \o _get_exercise_suggestions(exs, Tail(muscle_groups))

FullBodyMuscles == <<"chest", "back", "legs", "shoulders">>
MaxFocus == 3

\* The first row of the sorted frame: what iloc[0] would read.
LastWorkoutOldest(workouts) ==
    LET earliest == {i \in 1..Len(workouts) :
                        \A j \in 1..Len(workouts) :
                            \/ workouts[j].workout_date > workouts[i].workout_date
                            \/ workouts[j].workout_date = workouts[i].workout_date /\ j >= i}
    IN  workouts[CHOOSE i \in earliest : TRUE]

\* The last row of workouts_df.sort_values('workout_date').
LastWorkout(workouts) ==
    LET latest == {i \in 1..Len(workouts) :
                      \A j \in 1..Len(workouts) :
                          \/ workouts[j].workout_date < workouts[i].workout_date
                          \/ workouts[j].workout_date = workouts[i].workout_date /\ j <= i}
    IN  workouts[CHOOSE i \in latest : TRUE]

Prefix(s, n) == SubSeq(s, 1, IF Len(s) < n THEN Len(s) ELSE n)

get_next_workout_recommendation(workouts, sets, exs, now) ==
    LET balance == analyze_training_balance(workouts, sets, exs, now, 7)
    IN  IF "status" \in DOMAIN balance /\ balance.status = "no_data"
        THEN [recommendation |-> "full_body",
              suggested_muscles |-> FullBodyMuscles,
              exercises |-> _get_exercise_suggestions(exs, FullBodyMuscles)]
        ELSE
        LET undertrained == SelectSeq(MuscleOrder,
                                LAMBDA m : balance.muscle_groups[m].status = "undertrained")
            last_workout == LastWorkout(workouts)
            last_workout_sets == SelectSeq(sets, LAMBDA r : r.workout_id = last_workout.id)
            with_muscles == MergeExercises(last_workout_sets, exs)
            last_muscles == Unique([i \in 1..Len(with_muscles) |->
                                       with_muscles[i].muscle_group], <<>>)
            days_since_trained == _get_days_since_trained(workouts, sets, exs, now)
            high == SelectSeq(undertrained,
                        LAMBDA m : days_since_trained[m] >= RECOVERY_DAYS[m])
            medium == SelectSeq(MuscleOrder,
                        LAMBDA m : /\ days_since_trained[m] >= RECOVERY_DAYS[m]
                                   /\ \A i \in 1..Len(last_muscles) : last_muscles[i] # m)
            priority_muscles ==
                IF high # <<>>
                THEN [i \in 1..Len(high) |-> [muscle |-> high[i], priority |-> "high",
                                               days |-> days_since_trained[high[i]]]]
                ELSE [i \in 1..Len(medium) |-> [muscle |-> medium[i], priority |-> "medium",
                                                 days |-> days_since_trained[medium[i]]]]
            focus_muscles == Prefix(priority_muscles, MaxFocus)
            suggested_muscles == [i \in 1..Len(focus_muscles) |-> focus_muscles[i].muscle]
        IN  IF priority_muscles # <<>>
            THEN [recommendation |-> "targeted",
                  focus_muscles |-> focus_muscles,
                  suggested_muscles |-> suggested_muscles,
                  exercises |-> _get_exercise_suggestions(exs, suggested_muscles),
                  avoid |-> last_muscles]
            ELSE [recommendation |-> "rest_or_light"]

-----------------------------------------------------------------------------
(* The recommender specification: up to MaxWorkouts workouts on distinct    *)
(* days, each with the set rows of one of WorkoutPlans, analysed at a time  *)
(* of call some days after the latest workout.                              *)

MaxWorkouts == 2

\* One exercise per target group, and one of a group with no target.
ExerciseCatalog ==
    [i \in 1..7 |-> [id |-> i,
                     muscle_group |-> IF i <= 6 THEN MuscleOrder[i] ELSE "cardio",
                     is_compound |-> i <= 6]]

\* A plan lists <<exercise_id, set_type, number of sets>>: no sets; four
\* working sets for core; one working set for each group but core; one
\* working set for every group; a warm-up set for chest; a cardio set.
WorkoutPlans ==
    { <<>>,
      << <<6, "working", 4>> >>,
      << <<1, "working", 1>>, <<2, "working", 1>>, <<3, "working", 1>>,
         <<4, "working", 1>>, <<5, "working", 1>> >>,
      << <<1, "working", 1>>, <<2, "working", 1>>, <<3, "working", 1>>,
         <<4, "working", 1>>, <<5, "working", 1>>, <<6, "working", 1>> >>,
      << <<1, "warmup", 1>> >>,
      << <<7, "working", 1>> >> }

RECURSIVE PlanRows(_, _)
PlanRows(plan, workout_id) ==
    IF plan = <<>> THEN <<>>
    ELSE [k \in 1..Head(plan)[3] |->
             [workout_id |-> workout_id, exercise_id |-> Head(plan)[1],
              set_type |-> Head(plan)[2]]]
         \o PlanRows(Tail(plan), workout_id)

WorkoutGaps == {1, 2, 8}
NowAhead == {0, 1, 7, 8}
WindowDays == {7, 14}

LatestDay == IF sessions = <<>> THEN 0 ELSE sessions[Len(sessions)].workout_date

\* The caller stores one more workout and its sets.
LogWorkout ==
    /\ result = NoResult
    /\ Len(sessions) < MaxWorkouts
    /\ \E gap \in WorkoutGaps, plan \in WorkoutPlans :
        LET id == Len(sessions) + 1
            row == [id |-> id, workout_date |-> LatestDay + gap,
                    estimated_1rm |-> 100, total_volume |-> 1000,
                    avg_rpe |-> 7, perceived_exertion |-> 7]
        IN  /\ sessions' = Append(sessions, row)
            /\ sets_df' = sets_df \o PlanRows(plan, id)
    /\ UNCHANGED <<columns, z_threshold, predictor, result, date_dtype,
                   exercises_df, concurrent>>

\* Line 71 assigns the converted column into the frame it was handed.
AnalyzeTrainingBalance ==
    /\ result = NoResult
    /\ \E ahead \in NowAhead, midnight \in BOOLEAN, days \in WindowDays :
        LET now == [day |-> LatestDay + ahead, midnight |-> midnight]
        IN  result' = [op |-> "analyze_training_balance", raised |-> "none",
                       now |-> now, days |-> days,
                       out |-> analyze_training_balance(sessions, sets_df,
                                                        exercises_df, now, days)]
    /\ date_dtype' = "datetime64[ns]"
    /\ UNCHANGED <<sessions, columns, z_threshold, predictor, sets_df,
                   exercises_df, concurrent>>

\* Lines 194 and 213 assign the converted column into the caller's frame.
GetNextWorkoutRecommendation ==
    /\ result = NoResult
    /\ \E ahead \in NowAhead, midnight \in BOOLEAN :
        LET now == [day |-> LatestDay + ahead, midnight |-> midnight]
        IN  result' = [op |-> "get_next_workout_recommendation", raised |-> "none",
                       now |-> now,
                       out |-> get_next_workout_recommendation(sessions, sets_df,
                                                               exercises_df, now)]
    /\ date_dtype' = "datetime64[ns]"
    /\ UNCHANGED <<sessions, columns, z_threshold, predictor, sets_df,
                   exercises_df, concurrent>>

InitRecommender ==
    /\ sessions = <<>>
    /\ columns = AllColumns
    /\ z_threshold = 2
    /\ predictor = FreshPredictor
    /\ result = NoResult
    /\ date_dtype = "object"
    /\ sets_df = <<>>
    /\ exercises_df = ExerciseCatalog
    /\ engines = <<>>
    /\ requests = <<>>

NextRecommender ==
    LogWorkout \/ AnalyzeTrainingBalance \/ GetNextWorkoutRecommendation \/ Return

SpecRecommender == InitRecommender /\ [][NextRecommender]_vars

-----------------------------------------------------------------------------
(* The next-workout rule, stated over the tables the call was made on.      *)

Recommended == result.op = "get_next_workout_recommendation"

SetRows == 1..Len(sets_df)

\* The group of the exercise of set row i, and the day of its workout.
GroupsOfSet(i) ==
    {exercises_df[j].muscle_group :
        j \in {k \in 1..Len(exercises_df) : exercises_df[k].id = sets_df[i].exercise_id}}
DaysOfSet(i) ==
    {sessions[j].workout_date :
        j \in {k \in 1..Len(sessions) : sessions[k].id = sets_df[i].workout_id}}

InTrailingWeek(day) == OnOrAfterCutoff(day, result.now, 7)
SessionInTrailingWeek ==
    \E i \in 1..Len(sessions) : InTrailingWeek(sessions[i].workout_date)

WorkingSetsInTrailingWeek(muscle) ==
    Cardinality({i \in SetRows : /\ sets_df[i].set_type = "working"
                                 /\ muscle \in GroupsOfSet(i)
                                 /\ \E d \in DaysOfSet(i) : InTrailingWeek(d)})
Undertrained(muscle) == WorkingSetsInTrailingWeek(muscle) < VOLUME_TARGETS[muscle].min

DaysTrained(muscle) == UNION {DaysOfSet(i) : i \in {k \in SetRows : muscle \in GroupsOfSet(k)}}
DaysSinceTrained(muscle) ==
    IF DaysTrained(muscle) = {} THEN 999
    ELSE result.now.day - (CHOOSE d \in DaysTrained(muscle) :
                              \A e \in DaysTrained(muscle) : e <= d)
Recovered(muscle) == DaysSinceTrained(muscle) >= RECOVERY_DAYS[muscle]

MostRecentSessionId ==
    sessions[CHOOSE i \in 1..Len(sessions) :
                \A j \in 1..Len(sessions) :
                    sessions[j].workout_date <= sessions[i].workout_date].id
TrainedInMostRecentSession(muscle) ==
    \E i \in SetRows : /\ sets_df[i].workout_id = MostRecentSessionId
                       /\ muscle \in GroupsOfSet(i)

UndertrainedRecovered == {m \in Muscles : Undertrained(m) /\ Recovered(m)}
RecoveredNotJustTrained ==
    {m \in Muscles : Recovered(m) /\ ~TrainedInMostRecentSession(m)}
Candidates ==
    IF UndertrainedRecovered # {} THEN UndertrainedRecovered ELSE RecoveredNotJustTrained

SuggestedSet == {result.out.suggested_muscles[i] : i \in 1..Len(result.out.suggested_muscles)}

\* C16: get_next_workout_recommendation answers 'full_body' over chest, back,
\* legs and shoulders when no session lies in the trailing 7-day window;
\* otherwise its candidates are the undertrained groups rested for at least
\* their RECOVERY_DAYS (999 days when never trained) or, only when there are
\* none, the rested groups not trained in the most recent session; it
\* answers 'targeted' with at most three of them when there are any and
\* 'rest_or_light' exactly when there are none.
C16_NextWorkoutRule ==
    Recommended =>
        IF ~SessionInTrailingWeek
        THEN /\ result.out.recommendation = "full_body"
             /\ SuggestedSet = {"chest", "back", "legs", "shoulders"}
        ELSE /\ result.out.recommendation \in {"targeted", "rest_or_light"}
             /\ result.out.recommendation = "rest_or_light" <=> Candidates = {}
             /\ result.out.recommendation = "targeted" =>
                    /\ Len(result.out.suggested_muscles) <= 3
                    /\ Len(result.out.suggested_muscles) >= 1
                    /\ Cardinality(SuggestedSet) = Len(result.out.suggested_muscles)
                    /\ SuggestedSet \subseteq Candidates
                    /\ Cardinality(Candidates) <= 3 => SuggestedSet = Candidates

\* A call that falls back on recovery: every undertrained group was trained
\* too recently, and a group left out of the most recent session is rested.
C16_Witness ==
    /\ Recommended
    /\ SessionInTrailingWeek
    /\ UndertrainedRecovered = {}
    /\ RecoveredNotJustTrained # {}
    /\ result.out.recommendation = "targeted"
    /\ \E m \in Muscles : TrainedInMostRecentSession(m)

-----------------------------------------------------------------------------
(* Concurrent requests.  A router handler builds its table from the         *)
(* database, constructs its own engine and calls it step by step; the steps *)
(* of two requests interleave in every order.                               *)

Requests == {1, 2}

\* Every request would use the one instance: a module-level engine.
EngineOfShared(r) == 1

\* predictor = StrengthPredictor(), detector = AnomalyDetector(z_threshold=2.0),
\* recommender = TrainingRecommender(): local to the handler of request r.
EngineOf(r) == r

FreshEngine == [predictor |-> FreshPredictor, z_threshold |-> 2]

RequestKinds == {"predict_strength", "predict_goal_date", "detect_anomalies",
                 "training_balance"}
RequestArgs(kind) ==
    IF kind = "predict_strength" THEN {7, 30}
    ELSE IF kind = "predict_goal_date" THEN {115}
    ELSE {7}

\* The tables the handlers build: three sessions with a 1RM each, and the
\* sets of the latest one.
RequestUsers == {1, 2}
RequestTable(user) ==
    [i \in 1..3 |-> [id |-> i, workout_date |-> (i - 1) * (2 + user),
                     estimated_1rm |-> 100 + 5 * user * (i - 1),
                     total_volume |-> 10 * user, avg_rpe |-> 70,
                     perceived_exertion |-> 7]]
RequestSets(user) == PlanRows(<< <<6, "working", 4 * user>> >>, 3)

FirstStep(kind) ==
    IF kind \in {"predict_strength", "predict_goal_date"} THEN "train"
    ELSE IF kind = "detect_anomalies" THEN "detect"
    ELSE "analyze"

IdleRequest == [pc |-> "idle"]

\* The handler is entered: the table is read and the engine constructed.
StartRequest(r) ==
    /\ requests[r].pc = "idle"
    /\ \E kind \in RequestKinds, user \in RequestUsers :
        \E arg \in RequestArgs(kind) :
            requests' = [requests EXCEPT ![r] =
                            [pc |-> FirstStep(kind), kind |-> kind, arg |-> arg,
                             df |-> RequestTable(user), sets |-> RequestSets(user),
                             fit |-> FreshPredictor.model, out |-> <<>>]]
    /\ engines' = [engines EXCEPT ![EngineOf(r)] = FreshEngine]
    /\ UNCHANGED <<sessions, columns, z_threshold, predictor, result, tables>>

\* predictor.train(df) of request r.
TrainStep(r) ==
    /\ requests[r].pc = "train"
    /\ LET processed == prepare_data(WithIndex(requests[r].df))
       IN  \E fit \in FitChoices :
            /\ engines' = [engines EXCEPT ![EngineOf(r)].predictor =
                              [model |-> fit, scaler |-> ScalerFit(processed),
                               attrs |-> TrainAttrs(processed)]]
            /\ requests' = [requests EXCEPT
                               ![r].fit = fit,
                               ![r].pc = IF requests[r].kind = "predict_strength"
                                         THEN "predict_future"
                                         ELSE "predict_target_date"]
    /\ UNCHANGED <<sessions, columns, z_threshold, predictor, result, tables>>

\* predictor.predict_future(days_ahead=days_ahead) of request r.
PredictFutureStep(r) ==
    /\ requests[r].pc = "predict_future"
    /\ LET p == engines[EngineOf(r)].predictor
       IN  requests' = [requests EXCEPT
               ![r].pc = "done",
               ![r].out = IF p.model.name = "None"
                          THEN [raised |-> "ValueError: Model not trained"]
                          ELSE [raised |-> "none",
                                out |-> predict_future(p, SessionsAhead(p, requests[r].arg))]]
    /\ UNCHANGED <<sessions, columns, z_threshold, predictor, result, tables, engines>>

\* predictor.predict_target_date(target_weight) of request r.
PredictTargetDateStep(r) ==
    /\ requests[r].pc = "predict_target_date"
    /\ LET p == engines[EngineOf(r)].predictor
       IN  requests' = [requests EXCEPT
               ![r].pc = "done",
               ![r].out = IF p.model.name = "None"
                          THEN [raised |-> "ValueError: Model not trained"]
                          ELSE [raised |-> "none",
                                out |-> predict_target_date(p, requests[r].arg)]]
    /\ UNCHANGED <<sessions, columns, z_threshold, predictor, result, tables, engines>>

\* detector.detect_anomalies(df) of request r.
DetectStep(r) ==
    /\ requests[r].pc = "detect"
    /\ requests' = [requests EXCEPT
           ![r].pc = "done",
           ![r].out = [raised |-> "none",
                       out |-> detect_anomalies(WithIndex(requests[r].df), AllColumns,
                                                engines[EngineOf(r)].z_threshold)]]
    /\ UNCHANGED <<sessions, columns, z_threshold, predictor, result, tables, engines>>

\* recommender.analyze_training_balance(...) of request r, on the day after
\* its latest workout.
RequestNow(df) == [day |-> df[Len(df)].workout_date + 1, midnight |-> FALSE]

AnalyzeStep(r) ==
    /\ requests[r].pc = "analyze"
    /\ requests' = [requests EXCEPT
           ![r].pc = "done",
           ![r].out = [raised |-> "none",
                       out |-> analyze_training_balance(requests[r].df, requests[r].sets,
                                   ExerciseCatalog, RequestNow(requests[r].df),
                                   requests[r].arg)]]
    /\ UNCHANGED <<sessions, columns, z_threshold, predictor, result, tables, engines>>

\* The response is sent and the handler returns.
Respond(r) ==
    /\ requests[r].pc = "done"
    /\ requests' = [requests EXCEPT ![r] = IdleRequest]
    /\ UNCHANGED <<sessions, columns, z_threshold, predictor, result, tables, engines>>

InitConcurrent ==
    /\ sessions = <<>>
    /\ columns = AllColumns
    /\ z_threshold = 2
    /\ predictor = FreshPredictor
    /\ result = NoResult
    /\ date_dtype = "object"
    /\ sets_df = <<>>
    /\ exercises_df = ExerciseCatalog
    /\ engines = [r \in Requests |-> FreshEngine]
    /\ requests = [r \in Requests |-> IdleRequest]

NextConcurrent ==
    \E r \in Requests :
        \/ StartRequest(r)
        \/ TrainStep(r)
        \/ PredictFutureStep(r)
        \/ PredictTargetDateStep(r)
        \/ DetectStep(r)
        \/ AnalyzeStep(r)
        \/ Respond(r)

SpecConcurrent == InitConcurrent /\ [][NextConcurrent]_vars

\* What the request gets when nothing else runs: its own engine, fresh,
\* trained on its own table with the fit its train() made.
AloneResult(req) ==
    LET processed == prepare_data(WithIndex(req.df))
        p == [model |-> req.fit, scaler |-> ScalerFit(processed),
              attrs |-> TrainAttrs(processed)]
    IN  IF req.kind = "predict_strength"
        THEN [raised |-> "none", out |-> predict_future(p, SessionsAhead(p, req.arg))]
        ELSE IF req.kind = "predict_goal_date"
        THEN [raised |-> "none", out |-> predict_target_date(p, req.arg)]
        ELSE IF req.kind = "detect_anomalies"
        THEN [raised |-> "none",
              out |-> detect_anomalies(WithIndex(req.df), AllColumns, FreshEngine.z_threshold)]
        ELSE [raised |-> "none",
              out |-> analyze_training_balance(req.df, req.sets, ExerciseCatalog,
                                               RequestNow(req.df), req.arg)]

\* C17: two analyses running at once, each on an engine it constructed, get
\* under every interleaving of their steps the result each gets alone.
C17_RequestIsolation ==
    \A r \in Requests :
        requests[r].pc = "done" => requests[r].out = AloneResult(requests[r])

\* Request 1 has its forecast although request 2 trained on another table
\* with another fit in between and has not answered yet.
C17_Witness ==
    /\ requests[1].pc = "done"
    /\ requests[1].kind = "predict_strength"
    /\ requests[2].pc = "predict_target_date"
    /\ requests[2].df # requests[1].df
    /\ requests[2].fit # requests[1].fit
    /\ engines[2].predictor.model = requests[2].fit
    /\ engines[1].predictor.model = requests[1].fit

-----------------------------------------------------------------------------
(* The caller specification: one caller keeps its three tables and hands    *)
(* them to each of the six table operations in turn.  The workout_date      *)
(* column holds the dates as the database returns them (dtype object).      *)

MaxCallerLen == 8

\* Every workout: four working sets for core and a warm-up set for chest.
CallerPlan == << <<6, "working", 4>>, <<1, "warmup", 1>> >>

LogCallerWorkout ==
    /\ result = NoResult
    /\ Len(sessions) < MaxCallerLen
    /\ LET id == Len(sessions) + 1
           row == [id |-> id, workout_date |-> LatestDay + 1,
                   estimated_1rm |-> 100 + 5 * id, total_volume |-> 1000,
                   avg_rpe |-> 7, perceived_exertion |-> 7]
       IN  /\ sessions' = Append(sessions, row)
           /\ sets_df' = sets_df \o PlanRows(CallerPlan, id)
    /\ UNCHANGED <<columns, z_threshold, predictor, result, date_dtype,
                   exercises_df, concurrent>>

NextCaller ==
    \/ LogCallerWorkout
    \/ DetectAnomalies
    \/ GetHealthScore
    \/ Train
    \/ AnalyzeTrainingBalance
    \/ GetNextWorkoutRecommendation
    \/ SuggestDeload
    \/ Return

SpecCaller == InitRecommender /\ [][NextCaller]_vars

\* C18: detect_anomalies, get_health_score, train, analyze_training_balance,
\* get_next_workout_recommendation and suggest_deload leave the caller's
\* session, set and exercise tables as they were: the same columns, values
\* and types.
C18_InputsNotMutated ==
    [][(result = NoResult /\ result' # NoResult) =>
           /\ sessions' = sessions
           /\ columns' = columns
           /\ date_dtype' = date_dtype
           /\ sets_df' = sets_df
           /\ exercises_df' = exercises_df]_vars

-----------------------------------------------------------------------------
(* The row-order specification: the caller's table holds sessions of        *)
(* distinct dates in an order of its own; each new session, later than all  *)
(* the others, is put first or last.  Sessions are three days apart, the    *)
(* BreakAt-th one follows a break of eight days.                            *)

MaxOrderLen == 8
BreakAt == 4

NewestDay ==
    CHOOSE d \in {sessions[i].workout_date : i \in 1..Len(sessions)} :
        \A i \in 1..Len(sessions) : sessions[i].workout_date <= d

LogOutOfOrder ==
    /\ result = NoResult
    /\ Len(sessions) < MaxOrderLen
    /\ LET n == Len(sessions)
           row == [workout_date |-> IF n = 0 THEN 0
                                    ELSE NewestDay + (IF n + 1 = BreakAt THEN 8 ELSE 3),
                   estimated_1rm |-> 100 + 5 * n,
                   total_volume |-> IF n % 2 = 0 THEN 10 ELSE 20,
                   avg_rpe |-> 70, perceived_exertion |-> 7]
       IN  \E first \in BOOLEAN :
               sessions' = IF first THEN <<row>> \o sessions ELSE Append(sessions, row)
    /\ UNCHANGED <<columns, z_threshold, predictor, result, tables, concurrent>>

InitOrder == InitWith({AllColumns}, {2})

NextOrder ==
    \/ LogOutOfOrder
    \/ DetectAnomalies
    \/ GetHealthScore
    \/ Train
    \/ SuggestDeload
    \/ Return

SpecOrder == InitOrder /\ [][NextOrder]_vars

\* The caller's rows, oldest first.
OldestFirst == WithIndex(SortValues(WithIndex(sessions)))

\* detect_anomalies, get_health_score and train give what they give on the
\* rows oldest first.
SortedBeforeUse ==
    /\ result.op = "detect_anomalies" =>
           result.out = detect_anomalies(OldestFirst, columns, z_threshold)
    /\ result.op = "get_health_score" =>
           result.out = get_health_score(OldestFirst, columns)
    /\ (result.op = "train" /\ result.raised = "none") =>
           /\ predictor.attrs = TrainAttrs(prepare_data(OldestFirst))
           /\ predictor.scaler = ScalerFit(prepare_data(OldestFirst))

\* C19: with unique dates, what detect_anomalies, get_health_score, train and
\* suggest_deload give does not depend on the order of the rows handed in.
C19_DefensiveSorting ==
    /\ SortedBeforeUse
    /\ result.op = "suggest_deload" =>
           result.out = suggest_deload(OldestFirst, columns)

-----------------------------------------------------------------------------
(* The divisions of get_health_score and what they divide by.               *)

IsZero(x) == x.t = "q" /\ x.n = 0

\* The denominators of the divisions the health score carries out on the
\* sorted frame: the first-half mean behind its test (line 314), the base of
\* each pct_change step and the mean volume (lines 323-324).
HealthDenominators(df, cols) ==
    LET e == Col(df, "estimated_1rm")
        first_half == SeriesMean(HeadN(e, Len(df) \div 2))
        vols == Pad(Col(df, "total_volume"), NaN)
    IN  (IF "estimated_1rm" \in cols /\ DropNa(e) # <<>> /\ FGt(first_half, I(0))
         THEN {first_half} ELSE {})
        \cup (IF "total_volume" \in cols
              THEN {Cell(vols[i]) : i \in 1..(Len(vols) - 1)}
                       \cup {SeriesMean(Col(df, "total_volume"))}
              ELSE {})

\* C20: no division is by zero: where a denominator can be zero (a zero
\* mean volume, a zero first-half 1RM mean) the health score checks first
\* and puts the neutral 12.5 in place of a NaN or an infinity.
C20_GuardedDivisions ==
    HealthScored =>
        LET df == SortValues(WithIndex(sessions))
        IN  /\ \A d \in HealthDenominators(df, columns) : ~IsZero(d)
            /\ ("total_volume" \in columns
                    /\ IsZero(SeriesMean(Col(df, "total_volume")))) =>
                   result.out.breakdown.volume = RoundHalfEven(Q(25, 2))

-----------------------------------------------------------------------------
(* The achievable answer of predict_target_date.                            *)

Achievable ==
    /\ result.op = "predict_target_date"
    /\ result.raised = "none"
    /\ result.out.status = "achievable"

-----------------------------------------------------------------------------
(* Forecasting and the trained state.                                       *)

ForecastCall ==
    /\ result = NoResult
    /\ result'.op \in {"predict_future", "predict_target_date"}
    /\ result'.raised = "none"

\* C22: predict_future and predict_target_date leave every field of the
\* trained predictor as it was, and what they return is a function of that
\* state and the argument alone, whatever calls came before.
C22_ForecastsDoNotAccumulate ==
    [][ForecastCall =>
           /\ predictor' = predictor
           /\ result'.op = "predict_future" =>
                  result'.out = predict_future(predictor,
                                    SessionsAhead(predictor, result'.days_ahead))
           /\ result'.op = "predict_target_date" =>
                  result'.out = predict_target_date(predictor, result'.target_weight)]_vars

\* A forecast of several sessions from a predictor trained on three.
C22_Witness ==
    /\ result.op = "predict_future"
    /\ result.raised = "none"
    /\ result.days_ahead = 30
    /\ Len(result.out) >= 4
    /\ predictor.attrs.last_session = 3

-----------------------------------------------------------------------------
(* The performance rule of detect_anomalies, row by row.                    *)

\* The performance anomalies reported for row i of the sorted frame.
PerformanceOf(i) ==
    {k \in 1..Len(result.out) :
        result.out[k].row = i /\ DetectorRank(result.out[k].type) = 1}

\* z < -t and z > t for the z-score of row i against its trailing window.
RollingZBelow(df, i, t) ==
    LET z == _calculate_z_score(df[i].estimated_1rm,
                                RollingWindow(Col(df, "estimated_1rm"), i))
    IN  df[i].estimated_1rm # NaN /\ z.sign = -1 /\ FGt(z.square, I(t * t))
RollingZAbove(df, i, t) ==
    LET z == _calculate_z_score(df[i].estimated_1rm,
                                RollingWindow(Col(df, "estimated_1rm"), i))
    IN  df[i].estimated_1rm # NaN /\ z.sign = 1 /\ FGt(z.square, I(t * t))

PerformanceRuleAt(df, i) ==
    LET w == RollingWindow(Col(df, "estimated_1rm"), i)
        drops == {k \in PerformanceOf(i) : result.out[k].type = "performance_drop"}
        spikes == {k \in PerformanceOf(i) : result.out[k].type = "performance_spike"}
    IN  (Len(w) >= 2 /\ ~ZeroStd(w)) =>
            /\ drops # {} <=> RollingZBelow(df, i, z_threshold)
            /\ \A k \in drops :
                   result.out[k].severity =
                       IF RollingZBelow(df, i, 3) THEN "high" ELSE "medium"
            /\ spikes # {} <=> RollingZAbove(df, i, z_threshold)
            /\ \A k \in spikes : result.out[k].severity = "low"
            /\ Cardinality(PerformanceOf(i)) <= 1

\* C23 as stated: for each session with a defined, nonzero trailing rolling
\* std of estimated_1rm (window 5, at least 2 values) detect_anomalies emits
\* PERFORMANCE_DROP iff z < -threshold, 'high' iff z < -3 and 'medium'
\* otherwise, PERFORMANCE_SPIKE 'low' iff z > threshold, and nothing else.
C23_PerformanceRuleAnyLength ==
    Detected =>
        LET df == SortValues(WithIndex(sessions))
        IN  \A i \in 1..Len(df) : PerformanceRuleAt(df, i)

\* C23, amended: the rule holds in a history of at least 3 sessions.
C23_PerformanceRule ==
    (Detected /\ Len(sessions) >= MinAnomalySessions) =>
        LET df == SortValues(WithIndex(sessions))
        IN  \A i \in 1..Len(df) : PerformanceRuleAt(df, i)

\* A drop and a spike reported at threshold 1, and a row inside the band.
C23_Witness ==
    /\ Detected
    /\ z_threshold = 1
    /\ {"performance_drop", "performance_spike"} \subseteq TypesOf(result.out)
    /\ LET df == SortValues(WithIndex(sessions))
       IN  \E i \in 1..Len(df) :
               /\ Len(RollingWindow(Col(df, "estimated_1rm"), i)) >= 2
               /\ ~ZeroStd(RollingWindow(Col(df, "estimated_1rm"), i))
               /\ PerformanceOf(i) = {}

-----------------------------------------------------------------------------
(* The training-gap rule of detect_anomalies.                               *)

LongGapsOf(i) ==
    {k \in 1..Len(result.out) : result.out[k].row = i /\ result.out[k].type = "long_gap"}

\* gap > max(14, mean_gap + 2 * std_gap) for the gap before row i.
ExceedsLimit(df, i) ==
    LET gaps == DaysGap(df)
        z == _calculate_z_score(gaps[i], gaps)
    IN  /\ i > 1
        /\ gaps[i] > 14
        /\ z.sign = 1
        /\ FGt(z.square, I(4))

-----------------------------------------------------------------------------
(* The exertion specification: histories of up to MaxExertionLen sessions   *)
(* three days apart, whose perceived exertion is 6, 7 or 8, never falling,  *)
(* and missing in at most MaxMissing of them.                               *)

MaxExertionLen == 16

MaxMissing == 2

Exertions == {6, 7, 8}

LogExertionSession ==
    /\ Len(sessions) < MaxExertionLen
    /\ \E pe \in Exertions \cup {NaN} :
        LET known == DropNa(Col(sessions, "perceived_exertion"))
            missing == Len(sessions) - Len(known)
        IN  /\ pe = NaN => "perceived_exertion" \in columns /\ missing < MaxMissing
            /\ pe # NaN /\ known # <<>> => pe >= known[Len(known)]
            /\ pe # NaN /\ "perceived_exertion" \notin columns => pe = 6
            /\ LogSession(3, 100, 10, 70, pe)

NextExertion == LogExertionSession \/ SuggestDeload \/ Return

SpecExertion == InitDeload /\ [][NextExertion]_vars

ExertionReason == "Perceived exertion increasing - signs of accumulated fatigue"

\* The perceived exertion of the last RecentSessions sessions by date, the
\* missing values left out.
RecentExertion ==
    LET n == Len(sessions)
        from == IF n > RecentSessions THEN n - RecentSessions + 1 ELSE 1
    IN  SelectSeq([i \in 1..(n + 1 - from) |-> sessions[from + i - 1].perceived_exertion],
                  LAMBDA x : x # NaN)

RecentSpan ==
    LET n == Len(sessions)
        from == IF n > RecentSessions THEN n - RecentSessions + 1 ELSE 1
    IN  sessions[n].workout_date - sessions[from].workout_date

\* The mean of the last floor(n/2) values exceeds the mean of the first
\* floor(n/2) by more than 1: the sums differ by more than floor(n/2).
ExertionRising ==
    LET v == RecentExertion
        n == Len(v)
        h == n \div 2
    IN  /\ "perceived_exertion" \in columns
        /\ n >= 4
        /\ SumSeq(SubSeq(v, n - h + 1, n)) - SumSeq(SubSeq(v, 1, h)) > h

DeloadDecided ==
    /\ result # NoResult
    /\ result.op = "suggest_deload"
    /\ Len(sessions) >= MinDeloadSessions
    /\ RecentSpan >= MinDeloadDays

\* C25: once the history and span preconditions hold, suggest_deload looks
\* at the non-missing perceived exertion of the trailing 12 sessions, needs
\* at least 4 of them, and answers needs_deload when the mean of the last
\* half exceeds the mean of the first half by more than 1; only when that
\* check does not fire does the count of sessions since the last break
\* decide.
C25_DeloadExertionRule ==
    DeloadDecided =>
        /\ ExertionRising =>
               /\ result.out.needs_deload
               /\ result.out.reason = ExertionReason
        /\ ~ExertionRising =>
               /\ "reason" \in DOMAIN result.out => result.out.reason # ExertionReason
               /\ BreaksOf(sessions) = {} =>
                      (result.out.needs_deload <=> Len(sessions) >= DeloadAfter)

\* Sixteen sessions without a break, one exertion missing, and the exertion
\* check fires before the count is looked at.
C25_Witness ==
    /\ DeloadDecided
    /\ ExertionRising
    /\ Len(sessions) >= DeloadAfter
    /\ \E i \in 1..Len(sessions) : sessions[i].perceived_exertion = NaN

-----------------------------------------------------------------------------
(* The reach of the rolling z-score of the performance check.               *)

\* The rolling z-score of sorted row i, where the check computes one.
RollingZ(df, i) ==
    _calculate_z_score(df[i].estimated_1rm, RollingWindow(Col(df, "estimated_1rm"), i))

HasRollingZ(df, i) ==
    /\ df[i].estimated_1rm # NaN
    /\ Len(RollingWindow(Col(df, "estimated_1rm"), i)) >= 2
    /\ ~ZeroStd(RollingWindow(Col(df, "estimated_1rm"), i))

-----------------------------------------------------------------------------
(* The suggested and the avoided groups of a recommendation.                *)

SeqRange(s) == {s[i] : i \in 1..Len(s)}

\* C27: in every 'targeted' result of get_next_workout_recommendation, no
\* muscle group of suggested_muscles is also listed in avoid, the groups
\* trained in the most recent session.
C27_SuggestedAvoidedDisjoint ==
    (Recommended /\ result.out.recommendation = "targeted") =>
        SeqRange(result.out.suggested_muscles) \cap SeqRange(result.out.avoid) = {}

-----------------------------------------------------------------------------
(* The predictor across a train that raises.                                *)

TrainRaised ==
    /\ result = NoResult
    /\ result'.op = "train"
    /\ result'.raised # "none"

\* C28: whenever train raises, every field of the instance (model, scaler,
\* training_data, last_date, last_days, last_session,
\* last_cumulative_volume, last_1rm, avg_days_between) keeps the value it
\* had before the call.
C28_FailedTrainLeavesNoState ==
    [][TrainRaised => predictor' = predictor]_vars

-----------------------------------------------------------------------------
(* The session specification: the histories of the predictor               *)
(* specification, and predict_future called with sessions_ahead given.     *)

MaxSessionsAhead == 4

\* predict_future(sessions_ahead = n), lines 180-227.
PredictFutureSessions ==
    /\ result = NoResult
    /\ \E n \in 1..MaxSessionsAhead :
        result' = IF predictor.model.name = "None"
                  THEN [op |-> "predict_future", raised |-> "ValueError: Model not trained"]
                  ELSE [op |-> "predict_future", raised |-> "none", sessions_ahead |-> n,
                        out |-> ForecastLoop(predictor, 1, n, FNaN)]
    /\ UNCHANGED <<sessions, columns, z_threshold, predictor, tables, concurrent>>

NextSessions == LogTrainSession \/ Train \/ PredictFutureSessions \/ Return

SpecSessions == InitPredictor /\ [][NextSessions]_vars

ForecastOfSessions ==
    /\ result.op = "predict_future"
    /\ result.raised = "none"
    /\ "sessions_ahead" \in DOMAIN result

-----------------------------------------------------------------------------
(* The consistency sub-score against the mean gap.                          *)

\* The history with every gap one day shorter: the same gap variance, the
\* mean gap one day less.
OneDayCloser(table) ==
    [i \in 1..Len(table) |->
        [table[i] EXCEPT !.workout_date = table[i].workout_date - (i - 1)]]

\* C30: in get_health_score, for histories with the same gap variance, a
\* larger mean gap above 4 days never yields a higher consistency
\* sub-score than a smaller one.
C30_ConsistencyMonotoneInGap ==
    LET closer == WithIndex(OneDayCloser(sessions))
    IN  (/\ HealthScored
         /\ \A i \in 2..Len(sessions) :
                sessions[i].workout_date > sessions[i - 1].workout_date
         /\ FGt(SeriesMean(DaysGap(closer)), I(4))
         /\ SeriesVar(DaysGap(closer)) = SeriesVar(DaysGap(WithIndex(sessions)))) =>
            ConsistencyScore(closer) >= result.out.breakdown.consistency

====
